---------------------------- MODULE Spec2Model ----------------------------
(***************************************************************************)
(* The rule-based goal-description analysis of python-agents/agents/       *)
(* nlp_agent.py: the four extraction tools (intent, timeframe, metrics,    *)
(* constraints) and the NLPAgent that aggregates them.                     *)
(***************************************************************************)
EXTENDS Integers, Sequences, FiniteSets, TLC


(***************************************************************************)
(* Text.  A Python str is modelled as the sequence of its characters, each *)
(* character a one-character string.  Spell gives the characters of every  *)
(* string literal used below.                                              *)
(***************************************************************************)
Spellings ==
  <<
    <<"$", <<"$">>>>,
    <<"%", <<"%">>>>,
    <<",", <<",">>>>,
    <<"-", <<"-">>>>,
    <<".", <<".">>>>,
    <<"/", <<"/">>>>,
    <<"10", <<"1", "0">>>>,
    <<"10,", <<"1", "0", ",">>>>,
    <<"12", <<"1", "2">>>>,
    <<"12-31-2025", <<"1", "2", "-", "3", "1", "-", "2", "0", "2", "5">>>>,
    <<"13/45/2025", <<"1", "3", "/", "4", "5", "/", "2", "0", "2", "5">>>>,
    <<"15", <<"1", "5">>>>,
    <<"1kg", <<"1", "k", "g">>>>,
    <<"1kg 2km 3hrs 4min 5% gym", <<"1", "k", "g", " ", "2", "k", "m", " ", "3", "h", "r", "s", " ", "4", "m", "i", "n", " ", "5", "%", " ", "g", "y", "m">>>>,
    <<"2", <<"2">>>>,
    <<"2.5kg", <<"2", ".", "5", "k", "g">>>>,
    <<"20", <<"2", "0">>>>,
    <<"2026", <<"2", "0", "2", "6">>>>,
    <<"2km", <<"2", "k", "m">>>>,
    <<"3", <<"3">>>>,
    <<"3 weeks", <<"3", " ", "w", "e", "e", "k", "s">>>>,
    <<"3/15/2025", <<"3", "/", "1", "5", "/", "2", "0", "2", "5">>>>,
    <<"30", <<"3", "0">>>>,
    <<"30hours", <<"3", "0", "h", "o", "u", "r", "s">>>>,
    <<"3hrs", <<"3", "h", "r", "s">>>>,
    <<"3rd", <<"3", "r", "d">>>>,
    <<"4", <<"4">>>>,
    <<"4/1/26", <<"4", "/", "1", "/", "2", "6">>>>,
    <<"45", <<"4", "5">>>>,
    <<"4min", <<"4", "m", "i", "n">>>>,
    <<"5", <<"5">>>>,
    <<"5%", <<"5", "%">>>>,
    <<"50", <<"5", "0">>>>,
    <<"500", <<"5", "0", "0">>>>,
    <<"7.25", <<"7", ".", "2", "5">>>>,
    <<":", <<":">>>>,
    <<"February", <<"F", "e", "b", "r", "u", "a", "r", "y">>>>,
    <<"I", <<"I">>>>,
    <<"June", <<"J", "u", "n", "e">>>>,
    <<"Miles", <<"M", "i", "l", "e", "s">>>>,
    <<"Run", <<"R", "u", "n">>>>,
    <<"Tomorrow", <<"T", "o", "m", "o", "r", "r", "o", "w">>>>,
    <<"USD", <<"U", "S", "D">>>>,
    <<"a", <<"a">>>>,
    <<"a gym", <<"a", " ", "g", "y", "m">>>>,
    <<"about", <<"a", "b", "o", "u", "t">>>>,
    <<"accomplish", <<"a", "c", "c", "o", "m", "p", "l", "i", "s", "h">>>>,
    <<"achieve", <<"a", "c", "h", "i", "e", "v", "e">>>>,
    <<"afford", <<"a", "f", "f", "o", "r", "d">>>>,
    <<"afraid", <<"a", "f", "r", "a", "i", "d">>>>,
    <<"aim", <<"a", "i", "m">>>>,
    <<"aim to", <<"a", "i", "m", " ", "t", "o">>>>,
    <<"although", <<"a", "l", "t", "h", "o", "u", "g", "h">>>>,
    <<"and", <<"a", "n", "d">>>>,
    <<"anxious", <<"a", "n", "x", "i", "o", "u", "s">>>>,
    <<"approximately", <<"a", "p", "p", "r", "o", "x", "i", "m", "a", "t", "e", "l", "y">>>>,
    <<"april", <<"a", "p", "r", "i", "l">>>>,
    <<"around", <<"a", "r", "o", "u", "n", "d">>>>,
    <<"as", <<"a", "s">>>>,
    <<"asap", <<"a", "s", "a", "p">>>>,
    <<"august", <<"a", "u", "g", "u", "s", "t">>>>,
    <<"availability", <<"a", "v", "a", "i", "l", "a", "b", "i", "l", "i", "t", "y">>>>,
    <<"because", <<"b", "e", "c", "a", "u", "s", "e">>>>,
    <<"become", <<"b", "e", "c", "o", "m", "e">>>>,
    <<"bedtime", <<"b", "e", "d", "t", "i", "m", "e">>>>,
    <<"before", <<"b", "e", "f", "o", "r", "e">>>>,
    <<"begin", <<"b", "e", "g", "i", "n">>>>,
    <<"beginner", <<"b", "e", "g", "i", "n", "n", "e", "r">>>>,
    <<"book", <<"b", "o", "o", "k">>>>,
    <<"books", <<"b", "o", "o", "k", "s">>>>,
    <<"budget", <<"b", "u", "d", "g", "e", "t">>>>,
    <<"build", <<"b", "u", "i", "l", "d">>>>,
    <<"business", <<"b", "u", "s", "i", "n", "e", "s", "s">>>>,
    <<"busy", <<"b", "u", "s", "y">>>>,
    <<"but", <<"b", "u", "t">>>>,
    <<"by", <<"b", "y">>>>,
    <<"calendar", <<"c", "a", "l", "e", "n", "d", "a", "r">>>>,
    <<"calories", <<"c", "a", "l", "o", "r", "i", "e", "s">>>>,
    <<"can't", <<"c", "a", "n", "'", "t">>>>,
    <<"can't afford", <<"c", "a", "n", "'", "t", " ", "a", "f", "f", "o", "r", "d">>>>,
    <<"can't afford a gym. busy with a major problem.", <<"c", "a", "n", "'", "t", " ", "a", "f", "f", "o", "r", "d", " ", "a", " ", "g", "y", "m", ".", " ", "b", "u", "s", "y", " ", "w", "i", "t", "h", " ", "a", " ", "m", "a", "j", "o", "r", " ", "p", "r", "o", "b", "l", "e", "m", ".">>>>,
    <<"cardio", <<"c", "a", "r", "d", "i", "o">>>>,
    <<"career", <<"c", "a", "r", "e", "e", "r">>>>,
    <<"certification", <<"c", "e", "r", "t", "i", "f", "i", "c", "a", "t", "i", "o", "n">>>>,
    <<"challenging", <<"c", "h", "a", "l", "l", "e", "n", "g", "i", "n", "g">>>>,
    <<"chapter", <<"c", "h", "a", "p", "t", "e", "r">>>>,
    <<"chapters", <<"c", "h", "a", "p", "t", "e", "r", "s">>>>,
    <<"character", <<"c", "h", "a", "r", "a", "c", "t", "e", "r">>>>,
    <<"checkpoint", <<"c", "h", "e", "c", "k", "p", "o", "i", "n", "t">>>>,
    <<"coming", <<"c", "o", "m", "i", "n", "g">>>>,
    <<"community", <<"c", "o", "m", "m", "u", "n", "i", "t", "y">>>>,
    <<"complete", <<"c", "o", "m", "p", "l", "e", "t", "e">>>>,
    <<"conflict", <<"c", "o", "n", "f", "l", "i", "c", "t">>>>,
    <<"consistency", <<"c", "o", "n", "s", "i", "s", "t", "e", "n", "c", "y">>>>,
    <<"cost", <<"c", "o", "s", "t">>>>,
    <<"costly", <<"c", "o", "s", "t", "l", "y">>>>,
    <<"course", <<"c", "o", "u", "r", "s", "e">>>>,
    <<"create", <<"c", "r", "e", "a", "t", "e">>>>,
    <<"critical", <<"c", "r", "i", "t", "i", "c", "a", "l">>>>,
    <<"daily", <<"d", "a", "i", "l", "y">>>>,
    <<"day", <<"d", "a", "y">>>>,
    <<"days", <<"d", "a", "y", "s">>>>,
    <<"deadline", <<"d", "e", "a", "d", "l", "i", "n", "e">>>>,
    <<"debt", <<"d", "e", "b", "t">>>>,
    <<"december", <<"d", "e", "c", "e", "m", "b", "e", "r">>>>,
    <<"decrease", <<"d", "e", "c", "r", "e", "a", "s", "e">>>>,
    <<"dependent", <<"d", "e", "p", "e", "n", "d", "e", "n", "t">>>>,
    <<"depends on", <<"d", "e", "p", "e", "n", "d", "s", " ", "o", "n">>>>,
    <<"despite", <<"d", "e", "s", "p", "i", "t", "e">>>>,
    <<"develop", <<"d", "e", "v", "e", "l", "o", "p">>>>,
    <<"developer", <<"d", "e", "v", "e", "l", "o", "p", "e", "r">>>>,
    <<"diet", <<"d", "i", "e", "t">>>>,
    <<"difficult", <<"d", "i", "f", "f", "i", "c", "u", "l", "t">>>>,
    <<"discipline", <<"d", "i", "s", "c", "i", "p", "l", "i", "n", "e">>>>,
    <<"do", <<"d", "o">>>>,
    <<"doctor", <<"d", "o", "c", "t", "o", "r">>>>,
    <<"dollar", <<"d", "o", "l", "l", "a", "r">>>>,
    <<"dollars", <<"d", "o", "l", "l", "a", "r", "s">>>>,
    <<"don't know", <<"d", "o", "n", "'", "t", " ", "k", "n", "o", "w">>>>,
    <<"done", <<"d", "o", "n", "e">>>>,
    <<"due", <<"d", "u", "e">>>>,
    <<"during", <<"d", "u", "r", "i", "n", "g">>>>,
    <<"each", <<"e", "a", "c", "h">>>>,
    <<"earn", <<"e", "a", "r", "n">>>>,
    <<"eat", <<"e", "a", "t">>>>,
    <<"ed", <<"e", "d">>>>,
    <<"education", <<"e", "d", "u", "c", "a", "t", "i", "o", "n">>>>,
    <<"emergency", <<"e", "m", "e", "r", "g", "e", "n", "c", "y">>>>,
    <<"equipment", <<"e", "q", "u", "i", "p", "m", "e", "n", "t">>>>,
    <<"er", <<"e", "r">>>>,
    <<"even though", <<"e", "v", "e", "n", " ", "t", "h", "o", "u", "g", "h">>>>,
    <<"eventually", <<"e", "v", "e", "n", "t", "u", "a", "l", "l", "y">>>>,
    <<"every day", <<"e", "v", "e", "r", "y", " ", "d", "a", "y">>>>,
    <<"exactly", <<"e", "x", "a", "c", "t", "l", "y">>>>,
    <<"exercise", <<"e", "x", "e", "r", "c", "i", "s", "e">>>>,
    <<"expense", <<"e", "x", "p", "e", "n", "s", "e">>>>,
    <<"experience", <<"e", "x", "p", "e", "r", "i", "e", "n", "c", "e">>>>,
    <<"fall", <<"f", "a", "l", "l">>>>,
    <<"family", <<"f", "a", "m", "i", "l", "y">>>>,
    <<"february", <<"f", "e", "b", "r", "u", "a", "r", "y">>>>,
    <<"finally", <<"f", "i", "n", "a", "l", "l", "y">>>>,
    <<"financial", <<"f", "i", "n", "a", "n", "c", "i", "a", "l">>>>,
    <<"finish", <<"f", "i", "n", "i", "s", "h">>>>,
    <<"first", <<"f", "i", "r", "s", "t">>>>,
    <<"fitness", <<"f", "i", "t", "n", "e", "s", "s">>>>,
    <<"flexible", <<"f", "l", "e", "x", "i", "b", "l", "e">>>>,
    <<"food", <<"f", "o", "o", "d">>>>,
    <<"for", <<"f", "o", "r">>>>,
    <<"friends", <<"f", "r", "i", "e", "n", "d", "s">>>>,
    <<"funds", <<"f", "u", "n", "d", "s">>>>,
    <<"gain", <<"g", "a", "i", "n">>>>,
    <<"get", <<"g", "e", "t">>>>,
    <<"goal", <<"g", "o", "a", "l">>>>,
    <<"goal is to", <<"g", "o", "a", "l", " ", "i", "s", " ", "t", "o">>>>,
    <<"gym", <<"g", "y", "m">>>>,
    <<"gym,", <<"g", "y", "m", ",">>>>,
    <<"gym.", <<"g", "y", "m", ".">>>>,
    <<"habit", <<"h", "a", "b", "i", "t">>>>,
    <<"hard", <<"h", "a", "r", "d">>>>,
    <<"have to study", <<"h", "a", "v", "e", " ", "t", "o", " ", "s", "t", "u", "d", "y">>>>,
    <<"health", <<"h", "e", "a", "l", "t", "h">>>>,
    <<"hope", <<"h", "o", "p", "e">>>>,
    <<"hope to", <<"h", "o", "p", "e", " ", "t", "o">>>>,
    <<"hour", <<"h", "o", "u", "r">>>>,
    <<"hours", <<"h", "o", "u", "r", "s">>>>,
    <<"hours,", <<"h", "o", "u", "r", "s", ",">>>>,
    <<"however", <<"h", "o", "w", "e", "v", "e", "r">>>>,
    <<"hr", <<"h", "r">>>>,
    <<"immediately", <<"i", "m", "m", "e", "d", "i", "a", "t", "e", "l", "y">>>>,
    <<"important", <<"i", "m", "p", "o", "r", "t", "a", "n", "t">>>>,
    <<"impossible", <<"i", "m", "p", "o", "s", "s", "i", "b", "l", "e">>>>,
    <<"impossible.", <<"i", "m", "p", "o", "s", "s", "i", "b", "l", "e", ".">>>>,
    <<"improve", <<"i", "m", "p", "r", "o", "v", "e">>>>,
    <<"in", <<"i", "n">>>>,
    <<"in order to", <<"i", "n", " ", "o", "r", "d", "e", "r", " ", "t", "o">>>>,
    <<"income", <<"i", "n", "c", "o", "m", "e">>>>,
    <<"increase", <<"i", "n", "c", "r", "e", "a", "s", "e">>>>,
    <<"ing", <<"i", "n", "g">>>>,
    <<"initiate", <<"i", "n", "i", "t", "i", "a", "t", "e">>>>,
    <<"insomnia", <<"i", "n", "s", "o", "m", "n", "i", "a">>>>,
    <<"interview", <<"i", "n", "t", "e", "r", "v", "i", "e", "w">>>>,
    <<"invest", <<"i", "n", "v", "e", "s", "t">>>>,
    <<"is", <<"i", "s">>>>,
    <<"issue", <<"i", "s", "s", "u", "e">>>>,
    <<"it", <<"i", "t">>>>,
    <<"january", <<"j", "a", "n", "u", "a", "r", "y">>>>,
    <<"job", <<"j", "o", "b">>>>,
    <<"july", <<"j", "u", "l", "y">>>>,
    <<"june", <<"j", "u", "n", "e">>>>,
    <<"just", <<"j", "u", "s", "t">>>>,
    <<"kg", <<"k", "g">>>>,
    <<"kilogram", <<"k", "i", "l", "o", "g", "r", "a", "m">>>>,
    <<"kilometer", <<"k", "i", "l", "o", "m", "e", "t", "e", "r">>>>,
    <<"km", <<"k", "m">>>>,
    <<"km,", <<"k", "m", ",">>>>,
    <<"knowledge", <<"k", "n", "o", "w", "l", "e", "d", "g", "e">>>>,
    <<"lack", <<"l", "a", "c", "k">>>>,
    <<"lack of", <<"l", "a", "c", "k", " ", "o", "f">>>>,
    <<"language", <<"l", "a", "n", "g", "u", "a", "g", "e">>>>,
    <<"lazy", <<"l", "a", "z", "y">>>>,
    <<"lb", <<"l", "b">>>>,
    <<"lbs", <<"l", "b", "s">>>>,
    <<"learn", <<"l", "e", "a", "r", "n">>>>,
    <<"like", <<"l", "i", "k", "e">>>>,
    <<"limit", <<"l", "i", "m", "i", "t">>>>,
    <<"limitation", <<"l", "i", "m", "i", "t", "a", "t", "i", "o", "n">>>>,
    <<"limited", <<"l", "i", "m", "i", "t", "e", "d">>>>,
    <<"limited to", <<"l", "i", "m", "i", "t", "e", "d", " ", "t", "o">>>>,
    <<"location", <<"l", "o", "c", "a", "t", "i", "o", "n">>>>,
    <<"lose", <<"l", "o", "s", "e">>>>,
    <<"lose weight", <<"l", "o", "s", "e", " ", "w", "e", "i", "g", "h", "t">>>>,
    <<"major", <<"m", "a", "j", "o", "r">>>>,
    <<"make", <<"m", "a", "k", "e">>>>,
    <<"marathon", <<"m", "a", "r", "a", "t", "h", "o", "n">>>>,
    <<"march", <<"m", "a", "r", "c", "h">>>>,
    <<"master", <<"m", "a", "s", "t", "e", "r">>>>,
    <<"materials", <<"m", "a", "t", "e", "r", "i", "a", "l", "s">>>>,
    <<"may", <<"m", "a", "y">>>>,
    <<"meal", <<"m", "e", "a", "l">>>>,
    <<"medical", <<"m", "e", "d", "i", "c", "a", "l">>>>,
    <<"mile", <<"m", "i", "l", "e">>>>,
    <<"miles", <<"m", "i", "l", "e", "s">>>>,
    <<"miles,", <<"m", "i", "l", "e", "s", ",">>>>,
    <<"milestone", <<"m", "i", "l", "e", "s", "t", "o", "n", "e">>>>,
    <<"min", <<"m", "i", "n">>>>,
    <<"minute", <<"m", "i", "n", "u", "t", "e">>>>,
    <<"minutes", <<"m", "i", "n", "u", "t", "e", "s">>>>,
    <<"minutes,", <<"m", "i", "n", "u", "t", "e", "s", ",">>>>,
    <<"missing", <<"m", "i", "s", "s", "i", "n", "g">>>>,
    <<"money", <<"m", "o", "n", "e", "y">>>>,
    <<"month", <<"m", "o", "n", "t", "h">>>>,
    <<"months", <<"m", "o", "n", "t", "h", "s">>>>,
    <<"motivation", <<"m", "o", "t", "i", "v", "a", "t", "i", "o", "n">>>>,
    <<"muscle", <<"m", "u", "s", "c", "l", "e">>>>,
    <<"must", <<"m", "u", "s", "t">>>>,
    <<"must have", <<"m", "u", "s", "t", " ", "h", "a", "v", "e">>>>,
    <<"must learn", <<"m", "u", "s", "t", " ", "l", "e", "a", "r", "n">>>>,
    <<"nd", <<"n", "d">>>>,
    <<"need", <<"n", "e", "e", "d">>>>,
    <<"need approval from", <<"n", "e", "e", "d", " ", "a", "p", "p", "r", "o", "v", "a", "l", " ", "f", "r", "o", "m">>>>,
    <<"need to", <<"n", "e", "e", "d", " ", "t", "o">>>>,
    <<"need to learn", <<"n", "e", "e", "d", " ", "t", "o", " ", "l", "e", "a", "r", "n">>>>,
    <<"network", <<"n", "e", "t", "w", "o", "r", "k">>>>,
    <<"never", <<"n", "e", "v", "e", "r">>>>,
    <<"new to", <<"n", "e", "w", " ", "t", "o">>>>,
    <<"next", <<"n", "e", "x", "t">>>>,
    <<"next month", <<"n", "e", "x", "t", " ", "m", "o", "n", "t", "h">>>>,
    <<"next week", <<"n", "e", "x", "t", " ", "w", "e", "e", "k">>>>,
    <<"next year", <<"n", "e", "x", "t", " ", "y", "e", "a", "r">>>>,
    <<"no", <<"n", "o">>>>,
    <<"no experience", <<"n", "o", " ", "e", "x", "p", "e", "r", "i", "e", "n", "c", "e">>>>,
    <<"no hurry", <<"n", "o", " ", "h", "u", "r", "r", "y">>>>,
    <<"no rush", <<"n", "o", " ", "r", "u", "s", "h">>>>,
    <<"november", <<"n", "o", "v", "e", "m", "b", "e", "r">>>>,
    <<"nutrition", <<"n", "u", "t", "r", "i", "t", "i", "o", "n">>>>,
    <<"obtain", <<"o", "b", "t", "a", "i", "n">>>>,
    <<"occupied", <<"o", "c", "c", "u", "p", "i", "e", "d">>>>,
    <<"october", <<"o", "c", "t", "o", "b", "e", "r">>>>,
    <<"of", <<"o", "f">>>>,
    <<"omorrow", <<"o", "m", "o", "r", "r", "o", "w">>>>,
    <<"only", <<"o", "n", "l", "y">>>>,
    <<"others", <<"o", "t", "h", "e", "r", "s">>>>,
    <<"over", <<"o", "v", "e", "r">>>>,
    <<"page", <<"p", "a", "g", "e">>>>,
    <<"pages", <<"p", "a", "g", "e", "s">>>>,
    <<"per", <<"p", "e", "r">>>>,
    <<"percent", <<"p", "e", "r", "c", "e", "n", "t">>>>,
    <<"phase", <<"p", "h", "a", "s", "e">>>>,
    <<"physical", <<"p", "h", "y", "s", "i", "c", "a", "l">>>>,
    <<"plan", <<"p", "l", "a", "n">>>>,
    <<"plan to", <<"p", "l", "a", "n", " ", "t", "o">>>>,
    <<"points", <<"p", "o", "i", "n", "t", "s">>>>,
    <<"pound", <<"p", "o", "u", "n", "d">>>>,
    <<"pounds", <<"p", "o", "u", "n", "d", "s">>>>,
    <<"practice", <<"p", "r", "a", "c", "t", "i", "c", "e">>>>,
    <<"precisely", <<"p", "r", "e", "c", "i", "s", "e", "l", "y">>>>,
    <<"prevent", <<"p", "r", "e", "v", "e", "n", "t">>>>,
    <<"priority", <<"p", "r", "i", "o", "r", "i", "t", "y">>>>,
    <<"problem", <<"p", "r", "o", "b", "l", "e", "m">>>>,
    <<"problem.", <<"p", "r", "o", "b", "l", "e", "m", ".">>>>,
    <<"procrastination", <<"p", "r", "o", "c", "r", "a", "s", "t", "i", "n", "a", "t", "i", "o", "n">>>>,
    <<"professional", <<"p", "r", "o", "f", "e", "s", "s", "i", "o", "n", "a", "l">>>>,
    <<"project", <<"p", "r", "o", "j", "e", "c", "t">>>>,
    <<"promoted", <<"p", "r", "o", "m", "o", "t", "e", "d">>>>,
    <<"promotion", <<"p", "r", "o", "m", "o", "t", "i", "o", "n">>>>,
    <<"protein", <<"p", "r", "o", "t", "e", "i", "n">>>>,
    <<"quickly", <<"q", "u", "i", "c", "k", "l", "y">>>>,
    <<"rd", <<"r", "d">>>>,
    <<"reach", <<"r", "e", "a", "c", "h">>>>,
    <<"read", <<"r", "e", "a", "d">>>>,
    <<"really", <<"r", "e", "a", "l", "l", "y">>>>,
    <<"relationship", <<"r", "e", "l", "a", "t", "i", "o", "n", "s", "h", "i", "p">>>>,
    <<"rep", <<"r", "e", "p">>>>,
    <<"repetition", <<"r", "e", "p", "e", "t", "i", "t", "i", "o", "n">>>>,
    <<"reps", <<"r", "e", "p", "s">>>>,
    <<"require", <<"r", "e", "q", "u", "i", "r", "e">>>>,
    <<"required", <<"r", "e", "q", "u", "i", "r", "e", "d">>>>,
    <<"resources", <<"r", "e", "s", "o", "u", "r", "c", "e", "s">>>>,
    <<"rest", <<"r", "e", "s", "t">>>>,
    <<"restrict", <<"r", "e", "s", "t", "r", "i", "c", "t">>>>,
    <<"restricted", <<"r", "e", "s", "t", "r", "i", "c", "t", "e", "d">>>>,
    <<"roughly", <<"r", "o", "u", "g", "h", "l", "y">>>>,
    <<"routine", <<"r", "o", "u", "t", "i", "n", "e">>>>,
    <<"run", <<"r", "u", "n">>>>,
    <<"s", <<"s">>>>,
    <<"salary", <<"s", "a", "l", "a", "r", "y">>>>,
    <<"save", <<"s", "a", "v", "e">>>>,
    <<"scared", <<"s", "c", "a", "r", "e", "d">>>>,
    <<"schedule", <<"s", "c", "h", "e", "d", "u", "l", "e">>>>,
    <<"season", <<"s", "e", "a", "s", "o", "n">>>>,
    <<"second", <<"s", "e", "c", "o", "n", "d">>>>,
    <<"senior", <<"s", "e", "n", "i", "o", "r">>>>,
    <<"september", <<"s", "e", "p", "t", "e", "m", "b", "e", "r">>>>,
    <<"sessions", <<"s", "e", "s", "s", "i", "o", "n", "s">>>>,
    <<"shape", <<"s", "h", "a", "p", "e">>>>,
    <<"should", <<"s", "h", "o", "u", "l", "d">>>>,
    <<"since", <<"s", "i", "n", "c", "e">>>>,
    <<"skill", <<"s", "k", "i", "l", "l">>>>,
    <<"sleep", <<"s", "l", "e", "e", "p">>>>,
    <<"so I can", <<"s", "o", " ", "I", " ", "c", "a", "n">>>>,
    <<"so that", <<"s", "o", " ", "t", "h", "a", "t">>>>,
    <<"social", <<"s", "o", "c", "i", "a", "l">>>>,
    <<"some", <<"s", "o", "m", "e">>>>,
    <<"someday", <<"s", "o", "m", "e", "d", "a", "y">>>>,
    <<"something", <<"s", "o", "m", "e", "t", "h", "i", "n", "g">>>>,
    <<"soon", <<"s", "o", "o", "n">>>>,
    <<"specific", <<"s", "p", "e", "c", "i", "f", "i", "c">>>>,
    <<"spring", <<"s", "p", "r", "i", "n", "g">>>>,
    <<"st", <<"s", "t">>>>,
    <<"start", <<"s", "t", "a", "r", "t">>>>,
    <<"step", <<"s", "t", "e", "p">>>>,
    <<"study", <<"s", "t", "u", "d", "y">>>>,
    <<"stuff", <<"s", "t", "u", "f", "f">>>>,
    <<"summer", <<"s", "u", "m", "m", "e", "r">>>>,
    <<"th", <<"t", "h">>>>,
    <<"that", <<"t", "h", "a", "t">>>>,
    <<"then", <<"t", "h", "e", "n">>>>,
    <<"therapy", <<"t", "h", "e", "r", "a", "p", "y">>>>,
    <<"things", <<"t", "h", "i", "n", "g", "s">>>>,
    <<"third", <<"t", "h", "i", "r", "d">>>>,
    <<"this", <<"t", "h", "i", "s">>>>,
    <<"this month", <<"t", "h", "i", "s", " ", "m", "o", "n", "t", "h">>>>,
    <<"this week", <<"t", "h", "i", "s", " ", "w", "e", "e", "k">>>>,
    <<"this year", <<"t", "h", "i", "s", " ", "y", "e", "a", "r">>>>,
    <<"through", <<"t", "h", "r", "o", "u", "g", "h">>>>,
    <<"time", <<"t", "i", "m", "e">>>>,
    <<"times", <<"t", "i", "m", "e", "s">>>>,
    <<"times,", <<"t", "i", "m", "e", "s", ",">>>>,
    <<"tired", <<"t", "i", "r", "e", "d">>>>,
    <<"to", <<"t", "o">>>>,
    <<"to be able to", <<"t", "o", " ", "b", "e", " ", "a", "b", "l", "e", " ", "t", "o">>>>,
    <<"to help", <<"t", "o", " ", "h", "e", "l", "p">>>>,
    <<"today", <<"t", "o", "d", "a", "y">>>>,
    <<"today.", <<"t", "o", "d", "a", "y", ".">>>>,
    <<"tomorrow", <<"t", "o", "m", "o", "r", "r", "o", "w">>>>,
    <<"too expensive", <<"t", "o", "o", " ", "e", "x", "p", "e", "n", "s", "i", "v", "e">>>>,
    <<"tools", <<"t", "o", "o", "l", "s">>>>,
    <<"train", <<"t", "r", "a", "i", "n">>>>,
    <<"training", <<"t", "r", "a", "i", "n", "i", "n", "g">>>>,
    <<"unable", <<"u", "n", "a", "b", "l", "e">>>>,
    <<"unavailable", <<"u", "n", "a", "v", "a", "i", "l", "a", "b", "l", "e">>>>,
    <<"understand", <<"u", "n", "d", "e", "r", "s", "t", "a", "n", "d">>>>,
    <<"unmotivated", <<"u", "n", "m", "o", "t", "i", "v", "a", "t", "e", "d">>>>,
    <<"until", <<"u", "n", "t", "i", "l">>>>,
    <<"urgent", <<"u", "r", "g", "e", "n", "t">>>>,
    <<"using", <<"u", "s", "i", "n", "g">>>>,
    <<"vegetables", <<"v", "e", "g", "e", "t", "a", "b", "l", "e", "s">>>>,
    <<"via", <<"v", "i", "a">>>>,
    <<"waiting for", <<"w", "a", "i", "t", "i", "n", "g", " ", "f", "o", "r">>>>,
    <<"wake", <<"w", "a", "k", "e">>>>,
    <<"walked", <<"w", "a", "l", "k", "e", "d">>>>,
    <<"want", <<"w", "a", "n", "t">>>>,
    <<"want to", <<"w", "a", "n", "t", " ", "t", "o">>>>,
    <<"weather", <<"w", "e", "a", "t", "h", "e", "r">>>>,
    <<"week", <<"w", "e", "e", "k">>>>,
    <<"weeks", <<"w", "e", "e", "k", "s">>>>,
    <<"weight", <<"w", "e", "i", "g", "h", "t">>>>,
    <<"wellness", <<"w", "e", "l", "l", "n", "e", "s", "s">>>>,
    <<"whatever", <<"w", "h", "a", "t", "e", "v", "e", "r">>>>,
    <<"when possible", <<"w", "h", "e", "n", " ", "p", "o", "s", "s", "i", "b", "l", "e">>>>,
    <<"whenever", <<"w", "h", "e", "n", "e", "v", "e", "r">>>>,
    <<"will", <<"w", "i", "l", "l">>>>,
    <<"willpower", <<"w", "i", "l", "l", "p", "o", "w", "e", "r">>>>,
    <<"winter", <<"w", "i", "n", "t", "e", "r">>>>,
    <<"with", <<"w", "i", "t", "h">>>>,
    <<"with a major problem", <<"w", "i", "t", "h", " ", "a", " ", "m", "a", "j", "o", "r", " ", "p", "r", "o", "b", "l", "e", "m">>>>,
    <<"within", <<"w", "i", "t", "h", "i", "n">>>>,
    <<"without", <<"w", "i", "t", "h", "o", "u", "t">>>>,
    <<"word", <<"w", "o", "r", "d">>>>,
    <<"words", <<"w", "o", "r", "d", "s">>>>,
    <<"work", <<"w", "o", "r", "k">>>>,
    <<"working", <<"w", "o", "r", "k", "i", "n", "g">>>>,
    <<"workout", <<"w", "o", "r", "k", "o", "u", "t">>>>,
    <<"worried", <<"w", "o", "r", "r", "i", "e", "d">>>>,
    <<"would like", <<"w", "o", "u", "l", "d", " ", "l", "i", "k", "e">>>>,
    <<"write", <<"w", "r", "i", "t", "e">>>>,
    <<"year", <<"y", "e", "a", "r">>>>,
    <<"yesterday", <<"y", "e", "s", "t", "e", "r", "d", "a", "y">>>>
  >>

\* the function that a list of <<argument, value>> pairs gives
Table(pairs) ==
  [w \in {pairs[k][1] : k \in DOMAIN pairs} |->
     pairs[CHOOSE k \in DOMAIN pairs : pairs[k][1] = w][2]]

Spell == Table(Spellings)

\* e bound to a name in F: an assignment to a local
With(e, F(_)) == F(e)

Alphabet == <<"a","b","c","d","e","f","g","h","i","j","k","l","m",
              "n","o","p","q","r","s","t","u","v","w","x","y","z">>
Capitals == <<"A","B","C","D","E","F","G","H","I","J","K","L","M",
              "N","O","P","Q","R","S","T","U","V","W","X","Y","Z">>
LowerCase == {Alphabet[k] : k \in 1..26}
UpperCase == {Capitals[k] : k \in 1..26}
Digit == {"0","1","2","3","4","5","6","7","8","9"}
WordChar == LowerCase \cup UpperCase \cup Digit \cup {"_"}
WhiteSpace == {" "}

\* list(f): the values of f, a function on 1..n, as a list
List(f) == <<>> \o f

\* str.lower()
Lower(text) ==
  List([i \in 1..Len(text) |->
          IF text[i] \in UpperCase THEN Alphabet[CHOOSE k \in 1..26 : Capitals[k] = text[i]]
          ELSE text[i]])

\* text[i:i+len(s)] == s   (i is 1-based)
StartsAt(text, s, i) ==
  /\ i >= 1
  /\ i + Len(s) - 1 <= Len(text)
  /\ \A j \in 1..Len(s) : text[i + j - 1] = s[j]

\* s in text
Contains(text, s) == \E i \in 1..(Len(text) - Len(s) + 1) : StartsAt(text, s, i)

\* text.endswith(s)
EndsWith(text, s) == Len(s) <= Len(text) /\ StartsAt(text, s, Len(text) - Len(s) + 1)

Min(S) == CHOOSE k \in S : \A j \in S : k <= j
Max(S) == CHOOSE k \in S : \A j \in S : j <= k

\* str.split(): the maximal runs of non-whitespace characters, left to right
Split(text) ==
  LET starts == {i \in 1..Len(text) : text[i] \notin WhiteSpace /\ (i = 1 \/ text[i - 1] \in WhiteSpace)}
      StartOf(k) == CHOOSE i \in starts : Cardinality({j \in starts : j < i}) = k - 1
      EndOf(i) == Min({j \in i..Len(text) : j = Len(text) \/ text[j + 1] \in WhiteSpace})
  IN List([k \in 1..Cardinality(starts) |-> SubSeq(text, StartOf(k), EndOf(StartOf(k)))])

RECURSIVE JoinWith(_, _)
\* sep.join(parts)
JoinWith(sep, parts) ==
  IF parts = <<>> THEN <<>>
  ELSE IF Len(parts) = 1 THEN parts[1]
  ELSE parts[1] \o sep \o JoinWith(sep, Tail(parts))

\* str.strip()
Strip(text) ==
  LET keep == {i \in 1..Len(text) : text[i] \notin WhiteSpace}
  IN IF keep = {} THEN <<>> ELSE SubSeq(text, Min(keep), Max(keep))

(***************************************************************************)
(* Regular expressions (module re).  A pattern is a sequence of nodes; the *)
(* matcher is the backtracking matcher of re: alternatives are tried in    *)
(* order, a greedy repetition tries one more iteration first, a lazy one   *)
(* tries the rest of the pattern first, and the first success is the match.*)
(***************************************************************************)
Lit(w) == [t |-> "lit", s |-> w]
In(cs) == [t |-> "set", cs |-> cs]
NotIn(cs) == [t |-> "nset", cs |-> cs]
Alt(a) == [t |-> "alt", a |-> a]
Grp(n, r) == [t |-> "grp", n |-> n, r |-> r]
Rep(min, max, r) == [t |-> "rep", min |-> min, max |-> max, lazy |-> FALSE, r |-> r]
LazyRep(min, max, r) == [t |-> "rep", min |-> min, max |-> max, lazy |-> TRUE, r |-> r]
WB == [t |-> "wb"]
EOS == [t |-> "eos"]
Unbounded == -1
\* the groups of a match before any took part: group g spans <<from, to>>
NoCaps(groups) == [g \in 1..groups |-> <<0, 0>>]

IsWordAt(text, i) == i >= 1 /\ i <= Len(text) /\ text[i] \in WordChar

RECURSIVE MatchSeq(_, _, _, _)
RECURSIVE TryAlts(_, _, _, _, _, _)
TryAlts(alts, k, rest, text, i, caps) ==
  IF k > Len(alts) THEN <<>>
  ELSE LET m == MatchSeq(alts[k] \o rest, text, i, caps)
       IN IF m # <<>> THEN m ELSE TryAlts(alts, k + 1, rest, text, i, caps)

MatchSeq(nodes, text, i, caps) ==
  IF nodes = <<>> THEN <<[end |-> i, caps |-> caps]>>
  ELSE LET n == Head(nodes)
           rest == Tail(nodes)
       IN CASE n.t = "lit" ->
                 IF StartsAt(text, n.s, i) THEN MatchSeq(rest, text, i + Len(n.s), caps) ELSE <<>>
            [] n.t = "set" ->
                 IF i <= Len(text) /\ text[i] \in n.cs THEN MatchSeq(rest, text, i + 1, caps) ELSE <<>>
            [] n.t = "nset" ->
                 IF i <= Len(text) /\ text[i] \notin n.cs THEN MatchSeq(rest, text, i + 1, caps) ELSE <<>>
            [] n.t = "wb" ->
                 IF IsWordAt(text, i - 1) # IsWordAt(text, i) THEN MatchSeq(rest, text, i, caps) ELSE <<>>
            [] n.t = "eos" ->
                 IF i = Len(text) + 1 THEN MatchSeq(rest, text, i, caps) ELSE <<>>
            [] n.t = "alt" -> TryAlts(n.a, 1, rest, text, i, caps)
            [] n.t = "grp" ->
                 MatchSeq(n.r \o <<[t |-> "end", n |-> n.n, from |-> i]>> \o rest, text, i, caps)
            [] n.t = "end" ->
                 MatchSeq(rest, text, i, [caps EXCEPT ![n.n] = <<n.from, i>>])
            [] n.t = "rep" ->
                 IF Len(n.r) = 1 /\ n.r[1].t \in {"set", "nset"}
                 THEN \* a repeated character class: the run of matching characters
                      \* is found first, then the shortest (lazy) or the longest
                      \* (greedy) repetition after which the rest matches is taken
                      LET cls == n.r[1]
                          left == Len(text) - i + 1
                          limit == IF n.max = Unbounded \/ n.max > left THEN left ELSE n.max
                          bad == {j \in 0..(limit - 1) : (text[i + j] \in cls.cs) = (cls.t = "nset")}
                          run == IF bad = {} THEN limit ELSE Min(bad)
                          ks == {k \in n.min..run : MatchSeq(rest, text, i + k, caps) # <<>>}
                      IN IF ks = {} THEN <<>>
                         ELSE MatchSeq(rest, text, i + (IF n.lazy THEN Min(ks) ELSE Max(ks)), caps)
                 ELSE LET again == [n EXCEPT !.min = IF n.min > 0 THEN n.min - 1 ELSE 0,
                                             !.max = IF n.max > 0 THEN n.max - 1 ELSE n.max]
                          more == IF n.max = 0 THEN <<>>
                                  ELSE MatchSeq(n.r \o <<again>> \o rest, text, i, caps)
                          stop == IF n.min > 0 THEN <<>> ELSE MatchSeq(rest, text, i, caps)
                      IN IF n.lazy
                         THEN (IF stop # <<>> THEN stop ELSE more)
                         ELSE (IF more # <<>> THEN more ELSE stop)

RECURSIVE First(_)
\* The characters a match of the pattern can begin with ("all" when it can
\* begin with any character or be empty): re's first-character prefilter.
First(nodes) ==
  IF nodes = <<>> THEN [all |-> TRUE, cs |-> {}]
  ELSE LET n == Head(nodes)
           rest == Tail(nodes)
       IN CASE n.t = "lit" -> [all |-> FALSE, cs |-> {n.s[1]}]
            [] n.t = "set" -> [all |-> FALSE, cs |-> n.cs]
            [] n.t = "nset" -> [all |-> TRUE, cs |-> {}]
            [] n.t \in {"wb", "eos", "end"} -> First(rest)
            [] n.t = "grp" -> First(n.r \o rest)
            [] n.t = "alt" ->
                 LET fs == {First(n.a[k] \o rest) : k \in 1..Len(n.a)}
                 IN [all |-> \E f \in fs : f.all, cs |-> UNION {f.cs : f \in fs}]
            [] n.t = "rep" ->
                 LET f1 == First(n.r)
                     f2 == IF n.min > 0 THEN [all |-> FALSE, cs |-> {}] ELSE First(rest)
                 IN [all |-> f1.all \/ f2.all, cs |-> f1.cs \cup f2.cs]

RECURSIVE GroupCount(_)
\* pattern.groups: the number of capturing groups
GroupCount(nodes) ==
  IF nodes = <<>> THEN 0
  ELSE LET n == Head(nodes)
           here == CASE n.t = "grp" -> 1 + GroupCount(n.r)
                     [] n.t = "rep" -> GroupCount(n.r)
                     [] n.t = "alt" -> GroupCount(JoinWith(<<>>, n.a))
                     [] OTHER -> 0
       IN here + GroupCount(Tail(nodes))

RECURSIVE Spelled(_)
\* the pattern with the characters of its literals spelled out
Spelled(nodes) ==
  List([k \in 1..Len(nodes) |->
          CASE nodes[k].t = "lit" -> [nodes[k] EXCEPT !.s = Spell[@]]
            [] nodes[k].t \in {"grp", "rep"} -> [nodes[k] EXCEPT !.r = Spelled(@)]
            [] nodes[k].t = "alt" -> [nodes[k] EXCEPT !.a = List([j \in 1..Len(@) |-> Spelled(@[j])])]
            [] OTHER -> nodes[k]])

\* re.compile(pattern)
Compile(nodes) ==
  With(Spelled(nodes), LAMBDA re :
    [re |-> re, first |-> First(re), groups |-> GroupCount(re)])

\* a list of patterns, each compiled
CompileAll(patterns) == List([k \in 1..Len(patterns) |-> Compile(patterns[k])])

\* the leftmost match that starts at position i or later: <<>> or <<match>>
SearchFrom(p, text, i) ==
  With([j \in i..(Len(text) + 1) |->
          IF p.first.all \/ (j <= Len(text) /\ text[j] \in p.first.cs)
          THEN MatchSeq(p.re, text, j, NoCaps(p.groups)) ELSE <<>>], LAMBDA at :
    With({j \in i..(Len(text) + 1) : at[j] # <<>>}, LAMBDA starts :
      IF starts = {} THEN <<>>
      ELSE With(Min(starts), LAMBDA j :
             <<[start |-> j, end |-> at[j][1].end, caps |-> at[j][1].caps]>>)))

\* re.search(pattern, text): <<>> for None, else <<match>>
Search(p, text) == SearchFrom(p, text, 1)

RECURSIVE FindAllFrom(_, _, _)
FindAllFrom(p, text, i) ==
  With(SearchFrom(p, text, i), LAMBDA m :
    IF m = <<>> THEN <<>>
    ELSE m \o FindAllFrom(p, text, IF m[1].end = m[1].start THEN m[1].end + 1 ELSE m[1].end))

\* the matches of re.findall(pattern, text), left to right, non-overlapping
FindAll(p, text) == FindAllFrom(p, text, 1)

\* match.group(0)
Whole(text, m) == SubSeq(text, m.start, m.end - 1)
\* match.group(g); the empty string when the group did not take part
Group(text, m, g) == SubSeq(text, m.caps[g][1], m.caps[g][2] - 1)

\* re.findall(pattern, text): per match the whole match when the pattern has
\* no group, the group when it has one, the tuple of its groups otherwise
findall(p, text) ==
  With(FindAll(p, text), LAMBDA ms :
    List([j \in 1..Len(ms) |->
            IF p.groups = 0 THEN Whole(text, ms[j])
            ELSE IF p.groups = 1 THEN Group(text, ms[j], 1)
            ELSE List([g \in 1..p.groups |-> Group(text, ms[j], g)])]))

\* str.split(sep) for a one-character separator: the fields between the
\* separators, empty fields included
SplitOn(text, sep) ==
  LET cuts == {i \in 1..Len(text) : text[i] = sep}
      CutOf(k) == IF k = 0 THEN 0
                  ELSE IF k > Cardinality(cuts) THEN Len(text) + 1
                  ELSE CHOOSE i \in cuts : Cardinality({j \in cuts : j < i}) = k - 1
  IN List([k \in 1..(Cardinality(cuts) + 1) |-> SubSeq(text, CutOf(k - 1) + 1, CutOf(k) - 1)])

RECURSIVE ToInt(_)
\* int(text) for a string of decimal digits
ToInt(text) ==
  IF text = <<>> THEN 0
  ELSE 10 * ToInt(SubSeq(text, 1, Len(text) - 1))
       + (CHOOSE v \in 0..9 : <<"0","1","2","3","4","5","6","7","8","9">>[v + 1] = text[Len(text)])

(***************************************************************************)
(* Python float: IEEE 754 binary64 with round to nearest, ties to even.    *)
(* A natural number is written as its digits in base 2^15, least           *)
(* significant first, without leading zeros.  A float is [neg, mag]: its   *)
(* sign and its magnitude in units of 2^-75, a natural number of at most   *)
(* mant_dig significant bits.  The floats of the program lie between 2^-22 *)
(* and 2^31 in magnitude, where this is exact.                             *)
(***************************************************************************)
Base == 2 ^ 15

\* sys.float_info.mant_dig
mant_dig == 53

Limb(a, k) == IF k <= Len(a) THEN a[k] ELSE 0

\* a without leading zero digits
Trim(a) ==
  With({k \in 1..Len(a) : a[k] # 0}, LAMBDA nonzero :
    IF nonzero = {} THEN <<>> ELSE SubSeq(a, 1, Max(nonzero)))

RECURSIVE NatAddFrom(_, _, _, _)
NatAddFrom(a, b, k, carry) ==
  IF k > Len(a) /\ k > Len(b) THEN (IF carry = 0 THEN <<>> ELSE <<carry>>)
  ELSE With(Limb(a, k) + Limb(b, k) + carry, LAMBDA s :
         <<s % Base>> \o NatAddFrom(a, b, k + 1, s \div Base))

\* a + b
NatAdd(a, b) == NatAddFrom(a, b, 1, 0)

RECURSIVE NatSubFrom(_, _, _, _)
NatSubFrom(a, b, k, borrow) ==
  IF k > Len(a) THEN <<>>
  ELSE With(a[k] - Limb(b, k) - borrow, LAMBDA d :
         <<(d + Base) % Base>> \o NatSubFrom(a, b, k + 1, IF d < 0 THEN 1 ELSE 0))

\* a - b, for a >= b
NatSub(a, b) == Trim(NatSubFrom(a, b, 1, 0))

\* a < b
NatLess(a, b) ==
  IF Len(a) # Len(b) THEN Len(a) < Len(b)
  ELSE With({k \in 1..Len(a) : a[k] # b[k]}, LAMBDA differ :
         differ # {} /\ a[Max(differ)] < b[Max(differ)])

RECURSIVE NatMulFrom(_, _, _, _)
NatMulFrom(a, m, k, carry) ==
  IF k > Len(a) THEN (IF carry = 0 THEN <<>> ELSE <<carry>>)
  ELSE With(a[k] * m + carry, LAMBDA p :
         <<p % Base>> \o NatMulFrom(a, m, k + 1, p \div Base))

\* a * m, for 0 <= m < Base
NatMul(a, m) == IF m = 0 THEN <<>> ELSE NatMulFrom(a, m, 1, 0)

RECURSIVE NatDivFrom(_, _, _, _)
NatDivFrom(a, m, k, r) ==
  IF k = 0 THEN [q |-> <<>>, r |-> r]
  ELSE With(r * Base + a[k], LAMBDA cur :
         With(NatDivFrom(a, m, k - 1, cur % m), LAMBDA low :
           [q |-> low.q \o <<cur \div m>>, r |-> low.r]))

\* divmod(a, m), for 0 < m < Base
NatDivMod(a, m) ==
  With(NatDivFrom(a, m, Len(a), 0), LAMBDA d : [q |-> Trim(d.q), r |-> d.r])

\* int.bit_length()
BitLength(a) ==
  IF a = <<>> THEN 0
  ELSE 15 * (Len(a) - 1) + (CHOOSE n \in 1..15 : 2 ^ (n - 1) <= a[Len(a)] /\ a[Len(a)] < 2 ^ n)

\* a >> s, and whether a bit that is set was shifted out
ShiftRight(a, s) ==
  With(NatDivMod(SubSeq(a, s \div 15 + 1, Len(a)), 2 ^ (s % 15)), LAMBDA d :
    [q |-> d.q, sticky |-> d.r # 0 \/ \E k \in 1..(s \div 15) : Limb(a, k) # 0])

\* a << s
ShiftLeft(a, s) ==
  IF a = <<>> THEN <<>> ELSE [k \in 1..(s \div 15) |-> 0] \o NatMul(a, 2 ^ (s % 15))

\* a rounded to mant_dig significant bits; sticky tells that the exact
\* value is above a by less than one unit
Round(a, sticky) ==
  With(BitLength(a) - mant_dig, LAMBDA s :
    IF s <= 0 THEN a
    ELSE With(ShiftRight(a, s - 1), LAMBDA guarded :
           With(NatDivMod(guarded.q, 2), LAMBDA kept :
             ShiftLeft(IF kept.r = 1 /\ (guarded.sticky \/ sticky \/ Limb(kept.q, 1) % 2 = 1)
                       THEN NatAdd(kept.q, <<1>>) ELSE kept.q,
                       s))))

Float(neg, mag) == [neg |-> neg /\ mag # <<>>, mag |-> mag]

\* float(n) for an int 0 <= n < 2^30
FromInt(n) ==
  Float(FALSE, IF n = 0 THEN <<>> ELSE <<0, 0, 0, 0, 0>> \o Trim(<<n % Base, n \div Base>>))

\* x + y
FAdd(x, y) ==
  IF x.neg = y.neg THEN Float(x.neg, Round(NatAdd(x.mag, y.mag), FALSE))
  ELSE IF NatLess(x.mag, y.mag) THEN Float(y.neg, Round(NatSub(y.mag, x.mag), FALSE))
  ELSE Float(x.neg, Round(NatSub(x.mag, y.mag), FALSE))

\* x - y
FSub(x, y) == FAdd(x, Float(~y.neg, y.mag))

\* x * n, for an int 0 <= n < Base
FMul(x, n) == Float(x.neg, Round(NatMul(x.mag, n), FALSE))

\* x / n, for an int 0 < n < Base
FDiv(x, n) ==
  With(NatDivMod(<<0, 0>> \o x.mag, n), LAMBDA d :
    With(Round(d.q, d.r # 0), LAMBDA q : Float(x.neg, SubSeq(q, 3, Len(q)))))

\* x < y
FLess(x, y) ==
  IF x.neg # y.neg THEN x.neg
  ELSE IF x.neg THEN NatLess(y.mag, x.mag) ELSE NatLess(x.mag, y.mag)

\* min(x, y) and max(x, y): the first argument unless the second is smaller (larger)
FMin(x, y) == IF FLess(y, x) THEN y ELSE x
FMax(x, y) == IF FLess(x, y) THEN y ELSE x

\* the float literals 0.0, 0.1, ..., 1.0: the float nearest to n/10
Zero == FromInt(0)
One == FromInt(1)
tenths == List([n \in 1..10 |-> FDiv(FromInt(n), 10)])
Tenths(n) == IF n = 0 THEN Zero ELSE tenths[n]

\* c after the steps <<condition, x>> of a list, each adding x where its
\* condition holds: if condition: c += x
RECURSIVE AddWhere(_, _)
AddWhere(c, steps) ==
  IF steps = <<>> THEN c
  ELSE AddWhere(IF Head(steps)[1] THEN FAdd(c, Head(steps)[2]) ELSE c, Tail(steps))

\* sum(xs) of floats
RECURSIVE FSum(_)
FSum(xs) == IF xs = <<>> THEN Zero ELSE FAdd(FSum(SubSeq(xs, 1, Len(xs) - 1)), xs[Len(xs)])


\* any(word in text for word in words)
AnyIn(words, text) == \E k \in 1..Len(words) : Contains(text, Spell[words[k]])

(***************************************************************************)
(* IntentExtractionTool                                                    *)
(***************************************************************************)
domain_order ==
  <<"fitness", "learning", "career", "finance", "health",
    "nutrition", "sleep", "habits", "social", "projects">>

domain_patterns ==
  [fitness |-> <<"workout", "exercise", "run", "gym", "weight", "muscle", "cardio", "marathon", "fitness">>,
   learning |-> <<"learn", "study", "course", "skill", "education", "training", "certification", "language">>,
   career |-> <<"job", "career", "promotion", "salary", "work", "professional", "business", "interview",
                "promoted", "developer", "senior">>,
   finance |-> <<"money", "save", "budget", "invest", "debt", "financial", "income", "expense">>,
   health |-> <<"health", "doctor", "medical", "diet", "nutrition", "sleep", "wellness", "therapy">>,
   nutrition |-> <<"eat", "food", "diet", "nutrition", "meal", "calories", "protein", "vegetables">>,
   sleep |-> <<"sleep", "rest", "bedtime", "wake", "hours", "insomnia", "tired">>,
   habits |-> <<"habit", "routine", "daily", "practice", "consistency", "discipline">>,
   social |-> <<"friends", "family", "relationship", "social", "network", "community">>,
   projects |-> <<"project", "build", "create", "develop", "complete", "finish", "accomplish">>]

\* sum(1 for keyword in keywords if keyword in description)
KeywordScore(text, keywords) ==
  Cardinality({k \in 1..Len(keywords) : Contains(text, Spell[keywords[k]])})

\* a classifier that keeps the last of the domains with the highest score
classify_domain_last_wins(text, patterns) ==
  With(List([k \in 1..Len(domain_order) |-> KeywordScore(text, patterns[domain_order[k]])]), LAMBDA score :
    With({k \in 1..Len(domain_order) : score[k] > 0}, LAMBDA scored :
      IF scored # {}
      THEN domain_order[Max({k \in scored : \A j \in scored : score[j] <= score[k]})]
      ELSE "projects"))

\* _classify_domain.  max(domain_scores, key=domain_scores.get) is the first
\* key, in insertion order, whose value is the largest
classify_domain(text, patterns) ==
  With(List([k \in 1..Len(domain_order) |-> KeywordScore(text, patterns[domain_order[k]])]), LAMBDA score :
    With({k \in 1..Len(domain_order) : score[k] > 0}, LAMBDA scored :
      IF scored # {}
      THEN domain_order[Min({k \in scored : \A j \in scored : score[j] <= score[k]})]
      ELSE "projects"))

\* _extract_action: the eight verb families, in priority order
action_patterns ==
  CompileAll(<<
    \* \b(learn|study|master|understand)\b
    <<WB, Grp(1, <<Alt(<<<<Lit("learn")>>, <<Lit("study")>>, <<Lit("master")>>, <<Lit("understand")>>>>)>>), WB>>,
    \* \b(run|exercise|train|workout)\b
    <<WB, Grp(1, <<Alt(<<<<Lit("run")>>, <<Lit("exercise")>>, <<Lit("train")>>, <<Lit("workout")>>>>)>>), WB>>,
    \* \b(save|earn|invest|budget)\b
    <<WB, Grp(1, <<Alt(<<<<Lit("save")>>, <<Lit("earn")>>, <<Lit("invest")>>, <<Lit("budget")>>>>)>>), WB>>,
    \* \b(build|create|develop|make)\b
    <<WB, Grp(1, <<Alt(<<<<Lit("build")>>, <<Lit("create")>>, <<Lit("develop")>>, <<Lit("make")>>>>)>>), WB>>,
    \* \b(lose|gain|improve|increase|decrease)\b
    <<WB, Grp(1, <<Alt(<<<<Lit("lose")>>, <<Lit("gain")>>, <<Lit("improve")>>, <<Lit("increase")>>, <<Lit("decrease")>>>>)>>), WB>>,
    \* \b(complete|finish|achieve|accomplish)\b
    <<WB, Grp(1, <<Alt(<<<<Lit("complete")>>, <<Lit("finish")>>, <<Lit("achieve")>>, <<Lit("accomplish")>>>>)>>), WB>>,
    \* \b(start|begin|initiate)\b
    <<WB, Grp(1, <<Alt(<<<<Lit("start")>>, <<Lit("begin")>>, <<Lit("initiate")>>>>)>>), WB>>,
    \* \b(read|write|practice)\b
    <<WB, Grp(1, <<Alt(<<<<Lit("read")>>, <<Lit("write")>>, <<Lit("practice")>>>>)>>), WB>>
  >>)

\* _extract_outcome
outcome_patterns ==
  CompileAll(<<
    \* (?:to|want to|need to|plan to|aim to|goal is to)\s+(.+?)(?:\.|$|by|in|within)
    <<Alt(<<<<Lit("to")>>, <<Lit("want to")>>, <<Lit("need to")>>, <<Lit("plan to")>>, <<Lit("aim to")>>, <<Lit("goal is to")>>>>), Rep(1, Unbounded, <<In(WhiteSpace)>>), Grp(1, <<LazyRep(1, Unbounded, <<NotIn({"\n"})>>)>>), Alt(<<<<Lit(".")>>, <<EOS>>, <<Lit("by")>>, <<Lit("in")>>, <<Lit("within")>>>>)>>,
    \* (?:achieve|accomplish|complete|finish|reach)\s+(.+?)(?:\.|$|by|in|within)
    <<Alt(<<<<Lit("achieve")>>, <<Lit("accomplish")>>, <<Lit("complete")>>, <<Lit("finish")>>, <<Lit("reach")>>>>), Rep(1, Unbounded, <<In(WhiteSpace)>>), Grp(1, <<LazyRep(1, Unbounded, <<NotIn({"\n"})>>)>>), Alt(<<<<Lit(".")>>, <<EOS>>, <<Lit("by")>>, <<Lit("in")>>, <<Lit("within")>>>>)>>,
    \* (?:become|get|obtain|gain)\s+(.+?)(?:\.|$|by|in|within)
    <<Alt(<<<<Lit("become")>>, <<Lit("get")>>, <<Lit("obtain")>>, <<Lit("gain")>>>>), Rep(1, Unbounded, <<In(WhiteSpace)>>), Grp(1, <<LazyRep(1, Unbounded, <<NotIn({"\n"})>>)>>), Alt(<<<<Lit(".")>>, <<EOS>>, <<Lit("by")>>, <<Lit("in")>>, <<Lit("within")>>>>)>>
  >>)

\* _extract_context
motivation_patterns ==
  CompileAll(<<
    \* (?:because|since|as|for|to help|in order to)\s+(.+?)(?:\.|$)
    <<Alt(<<<<Lit("because")>>, <<Lit("since")>>, <<Lit("as")>>, <<Lit("for")>>, <<Lit("to help")>>, <<Lit("in order to")>>>>), Rep(1, Unbounded, <<In(WhiteSpace)>>), Grp(1, <<LazyRep(1, Unbounded, <<NotIn({"\n"})>>)>>), Alt(<<<<Lit(".")>>, <<EOS>>>>)>>,
    \* (?:so that|so I can|to be able to)\s+(.+?)(?:\.|$)
    <<Alt(<<<<Lit("so that")>>, <<Lit("so I can")>>, <<Lit("to be able to")>>>>), Rep(1, Unbounded, <<In(WhiteSpace)>>), Grp(1, <<LazyRep(1, Unbounded, <<NotIn({"\n"})>>)>>), Alt(<<<<Lit(".")>>, <<EOS>>>>)>>
  >>)

\* _extract_context (constraint_patterns)
context_constraint_patterns ==
  CompileAll(<<
    \* (?:but|however|although|despite|even though)\s+(.+?)(?:\.|$)
    <<Alt(<<<<Lit("but")>>, <<Lit("however")>>, <<Lit("although")>>, <<Lit("despite")>>, <<Lit("even though")>>>>), Rep(1, Unbounded, <<In(WhiteSpace)>>), Grp(1, <<LazyRep(1, Unbounded, <<NotIn({"\n"})>>)>>), Alt(<<<<Lit(".")>>, <<EOS>>>>)>>,
    \* (?:with|using|through|via)\s+(.+?)(?:\.|$)
    <<Alt(<<<<Lit("with")>>, <<Lit("using")>>, <<Lit("through")>>, <<Lit("via")>>>>), Rep(1, Unbounded, <<In(WhiteSpace)>>), Grp(1, <<LazyRep(1, Unbounded, <<NotIn({"\n"})>>)>>), Alt(<<<<Lit(".")>>, <<EOS>>>>)>>
  >>)

\* _determine_urgency: the date cues for high, medium, low
urgency_time_patterns ==
  CompileAll(<<
    \* \b(today|tomorrow|this week|next week)\b
    <<WB, Grp(1, <<Alt(<<<<Lit("today")>>, <<Lit("tomorrow")>>, <<Lit("this week")>>, <<Lit("next week")>>>>)>>), WB>>,
    \* \b(this month|next month|soon)\b
    <<WB, Grp(1, <<Alt(<<<<Lit("this month")>>, <<Lit("next month")>>, <<Lit("soon")>>>>)>>), WB>>,
    \* \b(this year|next year|someday)\b
    <<WB, Grp(1, <<Alt(<<<<Lit("this year")>>, <<Lit("next year")>>, <<Lit("someday")>>>>)>>), WB>>
  >>)

\* the first pattern of the list that matches anywhere: <<>> or <<match>>
RECURSIVE FirstSearch(_, _, _)
FirstSearch(patterns, k, text) ==
  IF k > Len(patterns) THEN <<>>
  ELSE With(Search(patterns[k], text), LAMBDA m :
         IF m # <<>> THEN m ELSE FirstSearch(patterns, k + 1, text))

\* the literals 'achieve' and 'goal completion'
achieve == <<"a", "c", "h", "i", "e", "v", "e">>
goal_completion == <<"g", "o", "a", "l", " ", "c", "o", "m", "p", "l", "e", "t", "i", "o", "n">>

filler_words == <<"want", "need", "plan", "hope", "aim", "goal">>
verb_endings == <<"ing", "ed", "er">>

\* the fallback loop of _extract_action over description.split(): the first
\* word that is no filler word, is longer than 3 and has a verb ending,
\* lowered; 'achieve' when there is none
VerbLike(words) ==
  With(Spell, LAMBDA spell :
    With({k \in 1..Len(words) :
            /\ Len(words[k]) > 3
            /\ \A f \in 1..Len(filler_words) : Lower(words[k]) # spell[filler_words[f]]
            /\ \E e \in 1..Len(verb_endings) : EndsWith(Lower(words[k]), spell[verb_endings[e]])},
         LAMBDA verbs : IF verbs = {} THEN achieve ELSE Lower(words[Min(verbs)])))

\* an action chosen by position: the leftmost of the families' matches
extract_action_by_position(description) ==
  With(Lower(description), LAMBDA text :
    With(List([k \in 1..Len(action_patterns) |-> Search(action_patterns[k], text)]), LAMBDA found :
      With({k \in 1..Len(found) : found[k] # <<>>}, LAMBDA matched :
        IF matched = {} THEN VerbLike(Split(description))
        ELSE With(CHOOSE k \in matched : \A j \in matched : found[k][1].start <= found[j][1].start,
                  LAMBDA k : Group(text, found[k][1], 1)))))

\* _extract_action: group 1 of the first pattern, in list order, that
\* matches anywhere in the lowered description; else the fallback loop
extract_action(description) ==
  With(FirstSearch(action_patterns, 1, Lower(description)), LAMBDA m :
    IF m # <<>> THEN Group(Lower(description), m[1], 1) ELSE VerbLike(Split(description)))

extract_outcome(description) ==
  With(FirstSearch(outcome_patterns, 1, Lower(description)), LAMBDA m :
    With(Split(description), LAMBDA words :
      IF m # <<>> THEN Strip(Group(Lower(description), m[1], 1))
      ELSE IF Len(words) > 3
           THEN JoinWith(<<" ">>, SubSeq(words, 1, IF Len(words) < 8 THEN Len(words) ELSE 8))
           ELSE description))

RECURSIVE FindAllOf(_, _, _)
\* the concatenation, over the patterns of a list, of re.findall
FindAllOf(patterns, k, text) ==
  IF k > Len(patterns) THEN <<>>
  ELSE findall(patterns[k], text) \o FindAllOf(patterns, k + 1, text)

\* [x.strip() for x in items if x.strip()]
StripAll(items) == SelectSeq(List([j \in 1..Len(items) |-> Strip(items[j])]), LAMBDA x : x # <<>>)

extract_context(description) ==
  StripAll(FindAllOf(motivation_patterns, 1, Lower(description))
           \o FindAllOf(context_constraint_patterns, 1, Lower(description)))

high_urgency_words == <<"urgent", "asap", "immediately", "critical", "emergency", "deadline", "must">>
medium_urgency_words == <<"soon", "quickly", "important", "priority", "need to", "should">>
low_urgency_words == <<"eventually", "someday", "when possible", "would like", "hope to">>

urgency_levels == <<"high", "medium", "low">>
urgency_words == <<high_urgency_words, medium_urgency_words, low_urgency_words>>

\* the date cues consulted before the words
determine_urgency_cues_first(description) ==
  With(Lower(description), LAMBDA text :
    With({k \in 1..3 : Search(urgency_time_patterns[k], text) # <<>>}, LAMBDA timed :
      IF timed # {} THEN urgency_levels[Min(timed)]
      ELSE With({k \in 1..3 : AnyIn(urgency_words[k], text)}, LAMBDA worded :
             IF worded # {} THEN urgency_levels[Min(worded)] ELSE "medium")))

\* the first level one of whose words is in the text; else the first level
\* whose date cue matches; else 'medium'
determine_urgency(description) ==
  With(Lower(description), LAMBDA text :
    With({k \in 1..3 : AnyIn(urgency_words[k], text)}, LAMBDA worded :
      IF worded # {} THEN urgency_levels[Min(worded)]
      ELSE With({k \in 1..3 : Search(urgency_time_patterns[k], text) # <<>>}, LAMBDA timed :
             IF timed # {} THEN urgency_levels[Min(timed)] ELSE "medium")))

vague_words == <<"something", "stuff", "things", "whatever">>

\* a clamp with its bounds exchanged: min(0.0, max(1.0, confidence))
calculate_confidence_clamps_swapped(description, domain, action, outcome) ==
  With(Len(Split(description)), LAMBDA word_count :
    FMin(Zero,
         FMax(One,
              AddWhere(Tenths(5),
                       <<<<word_count >= 5, Tenths(1)>>,
                         <<word_count >= 10, Tenths(1)>>,
                         <<action # achieve, Tenths(1)>>,
                         <<Len(outcome) > 10, Tenths(1)>>,
                         <<domain # "projects", Tenths(1)>>,
                         <<word_count < 3, FSub(Zero, Tenths(2))>>,
                         <<AnyIn(vague_words, Lower(description)), FSub(Zero, Tenths(3))>>>>))))

\* a confidence that a vague word reduces by 0.2 only
calculate_confidence_vague_as_short(description, domain, action, outcome) ==
  With(Len(Split(description)), LAMBDA word_count :
    FMax(Zero,
         FMin(One,
              AddWhere(Tenths(5),
                       <<<<word_count >= 5, Tenths(1)>>,
                         <<word_count >= 10, Tenths(1)>>,
                         <<action # achieve, Tenths(1)>>,
                         <<Len(outcome) > 10, Tenths(1)>>,
                         <<domain # "projects", Tenths(1)>>,
                         <<word_count < 3, FSub(Zero, Tenths(2))>>,
                         <<AnyIn(vague_words, Lower(description)), FSub(Zero, Tenths(2))>>>>))))

\* _calculate_confidence: the base confidence, the bonuses and the penalties
\* added in the order of the code, then max(0.0, min(1.0, confidence))
calculate_confidence(description, domain, action, outcome) ==
  With(Len(Split(description)), LAMBDA word_count :
    FMax(Zero,
         FMin(One,
              AddWhere(Tenths(5),
                       <<<<word_count >= 5, Tenths(1)>>,
                         <<word_count >= 10, Tenths(1)>>,
                         <<action # achieve, Tenths(1)>>,
                         <<Len(outcome) > 10, Tenths(1)>>,
                         <<domain # "projects", Tenths(1)>>,
                         <<word_count < 3, FSub(Zero, Tenths(2))>>,
                         <<AnyIn(vague_words, Lower(description)), FSub(Zero, Tenths(3))>>>>))))

\* the intent section of the aggregator's fallback, confidence 0.2
intent_fallback_of_aggregator ==
  [domain |-> "projects",
   action |-> achieve, outcome |-> goal_completion,
   context |-> <<>>, urgency |-> "medium", confidence |-> Tenths(2)]

\* an except branch of IntentExtractionTool.run that leaves the domain out
intent_fallback_without_domain ==
  [action |-> achieve, outcome |-> goal_completion,
   context |-> <<>>, urgency |-> "medium", confidence |-> Tenths(3)]

\* the dictionary of the except branch of IntentExtractionTool.run
intent_fallback ==
  [domain |-> "projects",
   action |-> achieve, outcome |-> goal_completion,
   context |-> <<>>, urgency |-> "medium", confidence |-> Tenths(3)]

\* IntentExtractionTool.run; a description that is not a str has no lower()
\* and raises inside the try block
intent_run(description) ==
  IF ~description.str THEN intent_fallback
  ELSE With(classify_domain(Lower(description.text), domain_patterns), LAMBDA domain :
         With(extract_action(description.text), LAMBDA action :
           With(extract_outcome(description.text), LAMBDA outcome :
             [domain |-> domain, action |-> action, outcome |-> outcome,
              context |-> extract_context(description.text),
              urgency |-> determine_urgency(description.text),
              confidence |-> calculate_confidence(description.text, domain, action, outcome)])))

(***************************************************************************)
(* Dates (module datetime).  A datetime is [year, month, day, tod]; tod is *)
(* the time of day in clock steps, 0 for a date built without a time.      *)
(* None is <<>> and an optional datetime d is <<d>>.                       *)
(***************************************************************************)
IsLeap(y) == y % 4 = 0 /\ (y % 100 # 0 \/ y % 400 = 0)
DaysInMonth(y, m) ==
  IF m = 2 THEN (IF IsLeap(y) THEN 29 ELSE 28)
  ELSE IF m \in {4, 6, 9, 11} THEN 30 ELSE 31
MinYear == 1
MaxYear == 9999

\* datetime(year, month, day) raises ValueError unless this holds
ValidDate(y, m, d) ==
  /\ y >= MinYear /\ y <= MaxYear
  /\ m >= 1 /\ m <= 12
  /\ d >= 1 /\ d <= DaysInMonth(y, m)

DateTime(y, m, d, t) == [year |-> y, month |-> m, day |-> d, tod |-> t]

DaysBeforeYear(y) == (y - 1) * 365 + (y - 1) \div 4 - (y - 1) \div 100 + (y - 1) \div 400
RECURSIVE DaysBeforeMonth(_, _)
DaysBeforeMonth(y, m) == IF m = 1 THEN 0 ELSE DaysBeforeMonth(y, m - 1) + DaysInMonth(y, m - 1)

\* date.toordinal()
ToOrdinal(dt) == DaysBeforeYear(dt.year) + DaysBeforeMonth(dt.year, dt.month) + dt.day

\* date.weekday(): Monday is 0
Weekday(dt) == (ToOrdinal(dt) + 6) % 7

\* date.fromordinal(n), with the time of day t
FromOrdinal(n, t) ==
  With(CHOOSE c \in (n \div 366)..(n \div 365 + 1) :
         DaysBeforeYear(c) < n /\ n <= DaysBeforeYear(c + 1), LAMBDA y :
    With(n - DaysBeforeYear(y), LAMBDA rest :
      With(CHOOSE c \in 1..12 : DaysBeforeMonth(y, c) < rest /\ rest <= DaysBeforeMonth(y, c + 1),
           LAMBDA m : DateTime(y, m, rest - DaysBeforeMonth(y, m), t))))

\* dt + timedelta(days=k)
PlusDays(dt, k) == FromOrdinal(ToOrdinal(dt) + k, dt.tod)

(***************************************************************************)
(* TimeframeParsingTool                                                    *)
(***************************************************************************)
\* _extract_time_phrases
time_patterns ==
  CompileAll(<<
    \* \b(?:by|before|until|deadline)\s+([^.]+?)(?:\.|$|,)
    <<WB, Alt(<<<<Lit("by")>>, <<Lit("before")>>, <<Lit("until")>>, <<Lit("deadline")>>>>), Rep(1, Unbounded, <<In(WhiteSpace)>>), Grp(1, <<LazyRep(1, Unbounded, <<NotIn({"."})>>)>>), Alt(<<<<Lit(".")>>, <<EOS>>, <<Lit(",")>>>>)>>,
    \* \b(?:in|within|over|during)\s+(\d+\s+(?:days?|weeks?|months?|years?))
    <<WB, Alt(<<<<Lit("in")>>, <<Lit("within")>>, <<Lit("over")>>, <<Lit("during")>>>>), Rep(1, Unbounded, <<In(WhiteSpace)>>), Grp(1, <<Rep(1, Unbounded, <<In(Digit)>>), Rep(1, Unbounded, <<In(WhiteSpace)>>), Alt(<<<<Lit("day"), Rep(0, 1, <<Lit("s")>>)>>, <<Lit("week"), Rep(0, 1, <<Lit("s")>>)>>, <<Lit("month"), Rep(0, 1, <<Lit("s")>>)>>, <<Lit("year"), Rep(0, 1, <<Lit("s")>>)>>>>)>>)>>,
    \* \b(?:next|this|coming)\s+(week|month|year|summer|winter|spring|fall)
    <<WB, Alt(<<<<Lit("next")>>, <<Lit("this")>>, <<Lit("coming")>>>>), Rep(1, Unbounded, <<In(WhiteSpace)>>), Grp(1, <<Alt(<<<<Lit("week")>>, <<Lit("month")>>, <<Lit("year")>>, <<Lit("summer")>>, <<Lit("winter")>>, <<Lit("spring")>>, <<Lit("fall")>>>>)>>)>>,
    \* \b(?:january|february|march|april|may|june|july|august|september|october|november|december)\s+\d{1,2}(?:st|nd|rd|th)?,?\s*\d{4}?
    <<WB, Alt(<<<<Lit("january")>>, <<Lit("february")>>, <<Lit("march")>>, <<Lit("april")>>, <<Lit("may")>>, <<Lit("june")>>, <<Lit("july")>>, <<Lit("august")>>, <<Lit("september")>>, <<Lit("october")>>, <<Lit("november")>>, <<Lit("december")>>>>), Rep(1, Unbounded, <<In(WhiteSpace)>>), Rep(1, 2, <<In(Digit)>>), Rep(0, 1, <<Alt(<<<<Lit("st")>>, <<Lit("nd")>>, <<Lit("rd")>>, <<Lit("th")>>>>)>>), Rep(0, 1, <<Lit(",")>>), Rep(0, Unbounded, <<In(WhiteSpace)>>), LazyRep(4, 4, <<In(Digit)>>)>>,
    \* \b\d{1,2}/\d{1,2}/\d{2,4}\b
    <<WB, Rep(1, 2, <<In(Digit)>>), Lit("/"), Rep(1, 2, <<In(Digit)>>), Lit("/"), Rep(2, 4, <<In(Digit)>>), WB>>,
    \* \b\d{1,2}-\d{1,2}-\d{2,4}\b
    <<WB, Rep(1, 2, <<In(Digit)>>), Lit("-"), Rep(1, 2, <<In(Digit)>>), Lit("-"), Rep(2, 4, <<In(Digit)>>), WB>>,
    \* \b(?:today|tomorrow|yesterday)\b
    <<WB, Alt(<<<<Lit("today")>>, <<Lit("tomorrow")>>, <<Lit("yesterday")>>>>), WB>>,
    \* \b(?:asap|immediately|soon|eventually)\b
    <<WB, Alt(<<<<Lit("asap")>>, <<Lit("immediately")>>, <<Lit("soon")>>, <<Lit("eventually")>>>>), WB>>
  >>)

\* _parse_dates
date_patterns ==
  CompileAll(<<
    \* \b(\d{1,2}/\d{1,2}/\d{2,4})\b
    <<WB, Grp(1, <<Rep(1, 2, <<In(Digit)>>), Lit("/"), Rep(1, 2, <<In(Digit)>>), Lit("/"), Rep(2, 4, <<In(Digit)>>)>>), WB>>,
    \* \b(\d{1,2}-\d{1,2}-\d{2,4})\b
    <<WB, Grp(1, <<Rep(1, 2, <<In(Digit)>>), Lit("-"), Rep(1, 2, <<In(Digit)>>), Lit("-"), Rep(2, 4, <<In(Digit)>>)>>), WB>>,
    \* \b(january|february|march|april|may|june|july|august|september|october|november|december)\s+(\d{1,2})(?:st|nd|rd|th)?,?\s*(\d{4})?
    <<WB, Grp(1, <<Alt(<<<<Lit("january")>>, <<Lit("february")>>, <<Lit("march")>>, <<Lit("april")>>, <<Lit("may")>>, <<Lit("june")>>, <<Lit("july")>>, <<Lit("august")>>, <<Lit("september")>>, <<Lit("october")>>, <<Lit("november")>>, <<Lit("december")>>>>)>>), Rep(1, Unbounded, <<In(WhiteSpace)>>), Grp(2, <<Rep(1, 2, <<In(Digit)>>)>>), Rep(0, 1, <<Alt(<<<<Lit("st")>>, <<Lit("nd")>>, <<Lit("rd")>>, <<Lit("th")>>>>)>>), Rep(0, 1, <<Lit(",")>>), Rep(0, Unbounded, <<In(WhiteSpace)>>), Rep(0, 1, <<Grp(3, <<Rep(4, 4, <<In(Digit)>>)>>)>>)>>
  >>)

\* _extract_duration: the regex of each (regex, unit) pair
duration_regexes ==
  CompileAll(<<
    \* (\d+)\s*hours?
    <<Grp(1, <<Rep(1, Unbounded, <<In(Digit)>>)>>), Rep(0, Unbounded, <<In(WhiteSpace)>>), Lit("hour"), Rep(0, 1, <<Lit("s")>>)>>,
    \* (\d+)\s*days?
    <<Grp(1, <<Rep(1, Unbounded, <<In(Digit)>>)>>), Rep(0, Unbounded, <<In(WhiteSpace)>>), Lit("day"), Rep(0, 1, <<Lit("s")>>)>>,
    \* (\d+)\s*weeks?
    <<Grp(1, <<Rep(1, Unbounded, <<In(Digit)>>)>>), Rep(0, Unbounded, <<In(WhiteSpace)>>), Lit("week"), Rep(0, 1, <<Lit("s")>>)>>,
    \* (\d+)\s*months?
    <<Grp(1, <<Rep(1, Unbounded, <<In(Digit)>>)>>), Rep(0, Unbounded, <<In(WhiteSpace)>>), Lit("month"), Rep(0, 1, <<Lit("s")>>)>>,
    \* (\d+)\s*years?
    <<Grp(1, <<Rep(1, Unbounded, <<In(Digit)>>)>>), Rep(0, Unbounded, <<In(WhiteSpace)>>), Lit("year"), Rep(0, 1, <<Lit("s")>>)>>
  >>)

\* _extract_milestones
milestone_patterns ==
  CompileAll(<<
    \* (?:milestone|checkpoint|phase|step)\s*\d*:?\s*([^.]+?)(?:\.|$|,)
    <<Alt(<<<<Lit("milestone")>>, <<Lit("checkpoint")>>, <<Lit("phase")>>, <<Lit("step")>>>>), Rep(0, Unbounded, <<In(WhiteSpace)>>), Rep(0, Unbounded, <<In(Digit)>>), Rep(0, 1, <<Lit(":")>>), Rep(0, Unbounded, <<In(WhiteSpace)>>), Grp(1, <<LazyRep(1, Unbounded, <<NotIn({"."})>>)>>), Alt(<<<<Lit(".")>>, <<EOS>>, <<Lit(",")>>>>)>>,
    \* (?:first|second|third|then|next|finally)\s+([^.]+?)(?:\.|$|,)
    <<Alt(<<<<Lit("first")>>, <<Lit("second")>>, <<Lit("third")>>, <<Lit("then")>>, <<Lit("next")>>, <<Lit("finally")>>>>), Rep(1, Unbounded, <<In(WhiteSpace)>>), Grp(1, <<LazyRep(1, Unbounded, <<NotIn({"."})>>)>>), Alt(<<<<Lit(".")>>, <<EOS>>, <<Lit(",")>>>>)>>,
    \* (?:by\s+\w+\s+\d+|in\s+\d+\s+\w+)\s+([^.]+?)(?:\.|$|,)
    <<Alt(<<<<Lit("by"), Rep(1, Unbounded, <<In(WhiteSpace)>>), Rep(1, Unbounded, <<In(WordChar)>>), Rep(1, Unbounded, <<In(WhiteSpace)>>), Rep(1, Unbounded, <<In(Digit)>>)>>, <<Lit("in"), Rep(1, Unbounded, <<In(WhiteSpace)>>), Rep(1, Unbounded, <<In(Digit)>>), Rep(1, Unbounded, <<In(WhiteSpace)>>), Rep(1, Unbounded, <<In(WordChar)>>)>>>>), Rep(1, Unbounded, <<In(WhiteSpace)>>), Grp(1, <<LazyRep(1, Unbounded, <<NotIn({"."})>>)>>), Alt(<<<<Lit(".")>>, <<EOS>>, <<Lit(",")>>>>)>>
  >>)

\* _parse_relative_dates: the keys of relative_patterns, in insertion order
relative_regexes ==
  CompileAll(<<
    \* \btoday\b
    <<WB, Lit("today"), WB>>,
    \* \btomorrow\b
    <<WB, Lit("tomorrow"), WB>>,
    \* \bnext week\b
    <<WB, Lit("next week"), WB>>,
    \* \bthis week\b
    <<WB, Lit("this week"), WB>>,
    \* \bnext month\b
    <<WB, Lit("next month"), WB>>,
    \* \bthis month\b
    <<WB, Lit("this month"), WB>>,
    \* \bnext year\b
    <<WB, Lit("next year"), WB>>,
    \* \bthis year\b
    <<WB, Lit("this year"), WB>>
  >>)

\* _parse_relative_dates: the regex of each in_patterns pair
in_regexes ==
  CompileAll(<<
    \* \bin\s+(\d+)\s+days?\b
    <<WB, Lit("in"), Rep(1, Unbounded, <<In(WhiteSpace)>>), Grp(1, <<Rep(1, Unbounded, <<In(Digit)>>)>>), Rep(1, Unbounded, <<In(WhiteSpace)>>), Lit("day"), Rep(0, 1, <<Lit("s")>>), WB>>,
    \* \bin\s+(\d+)\s+weeks?\b
    <<WB, Lit("in"), Rep(1, Unbounded, <<In(WhiteSpace)>>), Grp(1, <<Rep(1, Unbounded, <<In(Digit)>>)>>), Rep(1, Unbounded, <<In(WhiteSpace)>>), Lit("week"), Rep(0, 1, <<Lit("s")>>), WB>>,
    \* \bin\s+(\d+)\s+months?\b
    <<WB, Lit("in"), Rep(1, Unbounded, <<In(WhiteSpace)>>), Grp(1, <<Rep(1, Unbounded, <<In(Digit)>>)>>), Rep(1, Unbounded, <<In(WhiteSpace)>>), Lit("month"), Rep(0, 1, <<Lit("s")>>), WB>>
  >>)

\* _extract_time_phrases
extract_time_phrases(description) ==
  StripAll(FindAllOf(time_patterns, 1, Lower(description)))

month_names ==
  <<"january", "february", "march", "april", "may", "june",
    "july", "august", "september", "october", "november", "december">>

\* _month_name_to_number: months.get(month_name.lower(), 1)
month_name_to_number(month_name) ==
  With({k \in 1..12 : Spell[month_names[k]] = Lower(month_name)}, LAMBDA hits :
    IF hits = {} THEN 1 ELSE Min(hits))

\* datetime(year, month, day) inside the try block of _parse_dates: <<>> when
\* it raises ValueError (the item is skipped), else <<the date>>
TryDateTime(year, month, day) ==
  IF ValidDate(year, month, day) THEN <<DateTime(year, month, day, 0)>> ELSE <<>>

\* the two-digit year rule of _parse_dates
FullYear(y) == IF y < 100 THEN (IF y < 50 THEN y + 2000 ELSE y + 1900) ELSE y

\* The body of the try block of _parse_dates for one findall item: a tuple
\* (month name, day, year) of a three-group pattern, or the whole match of
\* the numeric pattern.  <<>> or <<the date assigned to end_date>>.
parse_date_match(groups, match, current_year) ==
  IF groups = 3
  THEN TryDateTime(IF match[3] # <<>> THEN ToInt(match[3]) ELSE current_year,
                   month_name_to_number(match[1]),
                   ToInt(match[2]))
  ELSE With(SplitOn(match, IF "/" \in {match[i] : i \in 1..Len(match)} THEN "/" ELSE "-"),
            LAMBDA parts :
              IF Len(parts) # 3 THEN <<>>
              ELSE TryDateTime(FullYear(ToInt(parts[3])), ToInt(parts[1]), ToInt(parts[2])))

\* the dates assigned to end_date by the loops of _parse_dates, in order
ParsedDates(text, current_year) ==
  JoinWith(<<>>,
    List([k \in 1..Len(date_patterns) |->
            With(findall(date_patterns[k], text), LAMBDA items :
              JoinWith(<<>>, List([j \in 1..Len(items) |->
                                     parse_date_match(date_patterns[k].groups, items[j], current_year)])))]))

\* building relative_patterns raises ValueError where now.replace(year=now.year+1)
\* does: on 29 February, and in year 9999
RelativeTableRaises(now) ==
  ~ValidDate(now.year + 1, now.month, now.day)

\* the values of relative_patterns, in insertion order
relative_dates(now) ==
  <<now,
    PlusDays(now, 1),
    PlusDays(now, 7),
    PlusDays(now, 7 - Weekday(now)),
    PlusDays(now, 30),
    [now EXCEPT !.day = 28],
    [now EXCEPT !.year = now.year + 1],
    [now EXCEPT !.month = 12, !.day = 31]>>

\* the day factors of in_patterns: days, weeks, months
in_factors == <<1, 7, 30>>

\* the "in N" expressions consulted before the table
parse_relative_dates_in_first(description, now) ==
  With(Lower(description), LAMBDA text :
    With(List([k \in 1..Len(in_regexes) |-> Search(in_regexes[k], text)]), LAMBDA found :
      With({k \in 1..Len(in_regexes) : found[k] # <<>>}, LAMBDA ins :
        IF ins # {}
        THEN <<PlusDays(now, ToInt(Group(text, found[Min(ins)][1], 1)) * in_factors[Min(ins)])>>
        ELSE With({k \in 1..Len(relative_regexes) : Search(relative_regexes[k], text) # <<>>}, LAMBDA rel :
               IF rel # {} THEN <<relative_dates(now)[Min(rel)]>> ELSE <<>>))))

\* _parse_relative_dates, where the table can be built: None or a datetime
parse_relative_dates(description, now) ==
  With(Lower(description), LAMBDA text :
    With({k \in 1..Len(relative_regexes) : Search(relative_regexes[k], text) # <<>>}, LAMBDA rel :
      IF rel # {} THEN <<relative_dates(now)[Min(rel)]>>
      ELSE With(List([k \in 1..Len(in_regexes) |-> Search(in_regexes[k], text)]), LAMBDA found :
             With({k \in 1..Len(in_regexes) : found[k] # <<>>}, LAMBDA ins :
               IF ins = {} THEN <<>>
               ELSE <<PlusDays(now, ToInt(Group(text, found[Min(ins)][1], 1)) * in_factors[Min(ins)])>>))))

\* _parse_dates without 'start_date = datetime.now()'
parse_dates_without_start(description, now) ==
  With(ParsedDates(Lower(description), now.year), LAMBDA explicit :
    IF explicit # <<>>
    THEN [raised |-> FALSE, start_date |-> <<>>, end_date |-> <<explicit[Len(explicit)]>>]
    ELSE IF RelativeTableRaises(now)
         THEN [raised |-> TRUE, start_date |-> <<>>, end_date |-> <<>>]
         ELSE [raised |-> FALSE, start_date |-> <<>>,
               end_date |-> parse_relative_dates(description, now)])

\* the first date parsed is kept as the end date
parse_dates_keeping_first(description, now) ==
  With(ParsedDates(Lower(description), now.year), LAMBDA explicit :
    IF explicit # <<>>
    THEN [raised |-> FALSE, start_date |-> <<now>>, end_date |-> <<explicit[1]>>]
    ELSE IF RelativeTableRaises(now)
         THEN [raised |-> TRUE, start_date |-> <<>>, end_date |-> <<>>]
         ELSE With(parse_relative_dates(description, now), LAMBDA end_date :
                [raised |-> FALSE,
                 start_date |-> IF end_date # <<>> THEN <<now>> ELSE <<>>,
                 end_date |-> end_date]))

\* _parse_dates: [raised, start_date, end_date]
parse_dates(description, now) ==
  With(ParsedDates(Lower(description), now.year), LAMBDA explicit :
    IF explicit # <<>>
    THEN [raised |-> FALSE, start_date |-> <<now>>, end_date |-> <<explicit[Len(explicit)]>>]
    ELSE IF RelativeTableRaises(now)
         THEN [raised |-> TRUE, start_date |-> <<>>, end_date |-> <<>>]
         ELSE With(parse_relative_dates(description, now), LAMBDA end_date :
                [raised |-> FALSE,
                 start_date |-> IF end_date # <<>> THEN <<now>> ELSE <<>>,
                 end_date |-> end_date]))

\* the empty dict
EmptyDict == [k \in {} |-> 0]

duration_units == <<"hours", "days", "weeks", "months", "years">>
\* 24ths of a day per unit: hours/24, days, weeks*7, months*30, years*365
unit_24ths == <<1, 24, 24 * 7, 24 * 30, 24 * 365>>

\* _extract_duration: {} or {'days': n}
RECURSIVE Sum(_)
\* sum(a) for a list of integers
Sum(a) == IF a = <<>> THEN 0 ELSE Head(a) + Sum(Tail(a))

\* a duration of which a begun day counts as a whole one
extract_duration_rounding_up(description) ==
  With(Lower(description), LAMBDA text :
    With(List([k \in 1..Len(duration_regexes) |-> Search(duration_regexes[k], text)]), LAMBDA found :
      With(Sum(List([k \in 1..Len(duration_regexes) |->
                       IF found[k] = <<>> THEN 0
                       ELSE ToInt(Group(text, found[k][1], 1)) * unit_24ths[k]])), LAMBDA total_24ths :
        IF total_24ths > 0 THEN [days |-> (total_24ths + 23) \div 24] ELSE EmptyDict)))

\* _extract_duration: {} or {'days': n}
extract_duration(description) ==
  With(Lower(description), LAMBDA text :
    With(List([k \in 1..Len(duration_regexes) |-> Search(duration_regexes[k], text)]), LAMBDA found :
      \* duration[unit] = int(matches[0]), for the units whose regex matches
      With(Sum(List([k \in 1..Len(duration_regexes) |->
                       IF found[k] = <<>> THEN 0
                       ELSE ToInt(Group(text, found[k][1], 1)) * unit_24ths[k]])), LAMBDA total_24ths :
        IF total_24ths > 0 THEN [days |-> total_24ths \div 24] ELSE EmptyDict)))

MilestoneLimit == 5

\* a[:], the limit left out
TakeAll(a, n) == a

\* a[:n]
Take(a, n) == SubSeq(a, 1, IF Len(a) < n THEN Len(a) ELSE n)

\* _extract_milestones
extract_milestones(description) ==
  Take(StripAll(FindAllOf(milestone_patterns, 1, Lower(description))), MilestoneLimit)

fixed_indicators == <<"deadline", "must", "required", "due", "exactly", "precisely">>
flexible_indicators == <<"around", "approximately", "roughly", "about", "flexible", "when possible">>
very_flexible_indicators == <<"eventually", "someday", "whenever", "no rush", "no hurry">>

flexibility_levels == <<"very_flexible", "flexible", "fixed">>
flexibility_indicators == <<very_flexible_indicators, flexible_indicators, fixed_indicators>>

\* the levels tested from the strictest to the loosest
determine_flexibility_fixed_first(description) ==
  With({k \in 1..3 : AnyIn(flexibility_indicators[k], Lower(description))}, LAMBDA hits :
    IF hits # {} THEN flexibility_levels[Max(hits)] ELSE "flexible")

\* the first level, in the order the code tests them, one of whose
\* indicators is in the text; else 'flexible'
determine_flexibility(description) ==
  With({k \in 1..3 : AnyIn(flexibility_indicators[k], Lower(description))}, LAMBDA hits :
    IF hits # {} THEN flexibility_levels[Min(hits)] ELSE "flexible")

\* _calculate_timeframe_confidence: min(1.0, confidence)
calculate_timeframe_confidence(phrases, start_date, end_date) ==
  FMin(One,
       AddWhere(Tenths(3),
                <<<<phrases # <<>>, Tenths(2)>>,
                  <<Len(phrases) > 1, Tenths(1)>>,
                  <<start_date # <<>>, Tenths(2)>>,
                  <<end_date # <<>>, Tenths(2)>>>>))

\* the dictionary of the except branch of TimeframeParsingTool.run; error
\* stands for the presence of the 'error' message
timeframe_fallback ==
  [startDate |-> <<>>, endDate |-> <<>>, duration |-> [days |-> 30], milestones |-> <<>>,
   flexibility |-> "flexible", extractedPhrases |-> <<>>, confidence |-> Tenths(2), error |-> TRUE]

\* datetime.isoformat(): the text that names exactly this date and time
isoformat(d) == <<d.year, d.month, d.day, d.tod>>

\* a run() that takes the duration from the clock reading to the end date
\* where the description has an end date
timeframe_run_counting_from_now(description, now) ==
  IF ~description.str THEN timeframe_fallback
  ELSE With(extract_time_phrases(description.text), LAMBDA phrases :
         With(parse_dates(description.text, now), LAMBDA dates :
           IF dates.raised THEN timeframe_fallback
           ELSE [startDate |-> [j \in 1..Len(dates.start_date) |-> isoformat(dates.start_date[j])],
                 endDate |-> [j \in 1..Len(dates.end_date) |-> isoformat(dates.end_date[j])],
                 duration |-> IF dates.end_date = <<>> THEN extract_duration(description.text)
                              ELSE [days |-> ToOrdinal(dates.end_date[1]) - ToOrdinal(now)],
                 milestones |-> extract_milestones(description.text),
                 flexibility |-> determine_flexibility(description.text),
                 extractedPhrases |-> phrases,
                 confidence |-> calculate_timeframe_confidence(phrases, dates.start_date, dates.end_date)]))

\* TimeframeParsingTool.run at clock reading now
timeframe_run(description, now) ==
  IF ~description.str THEN timeframe_fallback
  ELSE With(extract_time_phrases(description.text), LAMBDA phrases :
         With(parse_dates(description.text, now), LAMBDA dates :
           IF dates.raised THEN timeframe_fallback
           ELSE [startDate |-> [j \in 1..Len(dates.start_date) |-> isoformat(dates.start_date[j])],
                 endDate |-> [j \in 1..Len(dates.end_date) |-> isoformat(dates.end_date[j])],
                 duration |-> extract_duration(description.text),
                 milestones |-> extract_milestones(description.text),
                 flexibility |-> determine_flexibility(description.text),
                 extractedPhrases |-> phrases,
                 confidence |-> calculate_timeframe_confidence(phrases, dates.start_date, dates.end_date)]))

(***************************************************************************)
(* MetricsIdentificationTool                                               *)
(***************************************************************************)
\* MetricsIdentificationTool.run: the regex of each numeric_patterns triple
numeric_regexes ==
  CompileAll(<<
    \* (\d+(?:\.\d+)?)\s*(pounds?|lbs?|kg|kilograms?)
    <<Grp(1, <<Rep(1, Unbounded, <<In(Digit)>>), Rep(0, 1, <<Lit("."), Rep(1, Unbounded, <<In(Digit)>>)>>)>>), Rep(0, Unbounded, <<In(WhiteSpace)>>), Grp(2, <<Alt(<<<<Lit("pound"), Rep(0, 1, <<Lit("s")>>)>>, <<Lit("lb"), Rep(0, 1, <<Lit("s")>>)>>, <<Lit("kg")>>, <<Lit("kilogram"), Rep(0, 1, <<Lit("s")>>)>>>>)>>)>>,
    \* (\d+(?:\.\d+)?)\s*(miles?|km|kilometers?)
    <<Grp(1, <<Rep(1, Unbounded, <<In(Digit)>>), Rep(0, 1, <<Lit("."), Rep(1, Unbounded, <<In(Digit)>>)>>)>>), Rep(0, Unbounded, <<In(WhiteSpace)>>), Grp(2, <<Alt(<<<<Lit("mile"), Rep(0, 1, <<Lit("s")>>)>>, <<Lit("km")>>, <<Lit("kilometer"), Rep(0, 1, <<Lit("s")>>)>>>>)>>)>>,
    \* (\d+(?:\.\d+)?)\s*(hours?|hrs?)
    <<Grp(1, <<Rep(1, Unbounded, <<In(Digit)>>), Rep(0, 1, <<Lit("."), Rep(1, Unbounded, <<In(Digit)>>)>>)>>), Rep(0, Unbounded, <<In(WhiteSpace)>>), Grp(2, <<Alt(<<<<Lit("hour"), Rep(0, 1, <<Lit("s")>>)>>, <<Lit("hr"), Rep(0, 1, <<Lit("s")>>)>>>>)>>)>>,
    \* (\d+(?:\.\d+)?)\s*(minutes?|mins?)
    <<Grp(1, <<Rep(1, Unbounded, <<In(Digit)>>), Rep(0, 1, <<Lit("."), Rep(1, Unbounded, <<In(Digit)>>)>>)>>), Rep(0, Unbounded, <<In(WhiteSpace)>>), Grp(2, <<Alt(<<<<Lit("minute"), Rep(0, 1, <<Lit("s")>>)>>, <<Lit("min"), Rep(0, 1, <<Lit("s")>>)>>>>)>>)>>,
    \* (\d+(?:\.\d+)?)\s*(dollars?|\$|USD)
    <<Grp(1, <<Rep(1, Unbounded, <<In(Digit)>>), Rep(0, 1, <<Lit("."), Rep(1, Unbounded, <<In(Digit)>>)>>)>>), Rep(0, Unbounded, <<In(WhiteSpace)>>), Grp(2, <<Alt(<<<<Lit("dollar"), Rep(0, 1, <<Lit("s")>>)>>, <<Lit("$")>>, <<Lit("USD")>>>>)>>)>>,
    \* (\d+(?:\.\d+)?)\s*(?:%|percent)
    <<Grp(1, <<Rep(1, Unbounded, <<In(Digit)>>), Rep(0, 1, <<Lit("."), Rep(1, Unbounded, <<In(Digit)>>)>>)>>), Rep(0, Unbounded, <<In(WhiteSpace)>>), Alt(<<<<Lit("%")>>, <<Lit("percent")>>>>)>>,
    \* (\d+(?:\.\d+)?)\s*(times?|reps?|repetitions?)
    <<Grp(1, <<Rep(1, Unbounded, <<In(Digit)>>), Rep(0, 1, <<Lit("."), Rep(1, Unbounded, <<In(Digit)>>)>>)>>), Rep(0, Unbounded, <<In(WhiteSpace)>>), Grp(2, <<Alt(<<<<Lit("time"), Rep(0, 1, <<Lit("s")>>)>>, <<Lit("rep"), Rep(0, 1, <<Lit("s")>>)>>, <<Lit("repetition"), Rep(0, 1, <<Lit("s")>>)>>>>)>>)>>,
    \* (\d+(?:\.\d+)?)\s*(pages?|chapters?|books?)
    <<Grp(1, <<Rep(1, Unbounded, <<In(Digit)>>), Rep(0, 1, <<Lit("."), Rep(1, Unbounded, <<In(Digit)>>)>>)>>), Rep(0, Unbounded, <<In(WhiteSpace)>>), Grp(2, <<Alt(<<<<Lit("page"), Rep(0, 1, <<Lit("s")>>)>>, <<Lit("chapter"), Rep(0, 1, <<Lit("s")>>)>>, <<Lit("book"), Rep(0, 1, <<Lit("s")>>)>>>>)>>)>>,
    \* (\d+(?:\.\d+)?)\s*(words?|characters?)
    <<Grp(1, <<Rep(1, Unbounded, <<In(Digit)>>), Rep(0, 1, <<Lit("."), Rep(1, Unbounded, <<In(Digit)>>)>>)>>), Rep(0, Unbounded, <<In(WhiteSpace)>>), Grp(2, <<Alt(<<<<Lit("word"), Rep(0, 1, <<Lit("s")>>)>>, <<Lit("character"), Rep(0, 1, <<Lit("s")>>)>>>>)>>)>>
  >>)

\* the metric type and the default unit of each numeric_patterns triple
numeric_types ==
  <<"weight", "distance", "time", "time", "money", "percentage", "count", "reading", "writing">>
numeric_units ==
  <<"lbs", "miles", "hours", "minutes", "dollars", "percent", "times", "pages", "words">>

\* f"{metric_type}_target"
TargetName(metric_type) ==
  CASE metric_type = "weight" -> "weight_target"
    [] metric_type = "distance" -> "distance_target"
    [] metric_type = "time" -> "time_target"
    [] metric_type = "money" -> "money_target"
    [] metric_type = "percentage" -> "percentage_target"
    [] metric_type = "count" -> "count_target"
    [] metric_type = "reading" -> "reading_target"
    [] metric_type = "writing" -> "writing_target"

\* float(text) for digits with an optional fraction part of up to four digits
ToFloat(text) ==
  With(SplitOn(text, "."), LAMBDA parts :
    IF Len(parts) = 1 THEN FromInt(ToInt(parts[1]))
    ELSE FDiv(FromInt(ToInt(parts[1] \o parts[2])), 10 ^ Len(parts[2])))

Metric(name, unit, target, confidence) ==
  [name |-> name, unit |-> unit, targetValue |-> target, currentValue |-> 0, confidence |-> confidence]

\* The body of the inner loop of run for one findall item of pattern k.  An
\* item is a tuple of groups when the pattern has two groups and a str when
\* it has one; match[0] and match[1] index whichever it is.
numeric_metric(k, tuple, match) ==
  Metric(TargetName(numeric_types[k]),
         IF Len(match) > 1
         THEN (IF tuple THEN match[2] ELSE <<match[2]>>)
         ELSE Spell[numeric_units[k]],
         ToFloat(IF tuple THEN match[1] ELSE <<match[1]>>),
         "high")

\* the metrics appended by the loop over numeric_patterns
NumericMetrics(text) ==
  JoinWith(<<>>,
    List([k \in 1..Len(numeric_regexes) |->
            With(findall(numeric_regexes[k], text), LAMBDA items :
              List([j \in 1..Len(items) |->
                      numeric_metric(k, numeric_regexes[k].groups > 1, items[j])]))]))

fitness_words == <<"workout", "exercise", "fitness", "gym", "working", "shape">>
learning_words == <<"learn", "study", "course", "skill">>
reading_words == <<"read", "book", "chapter">>
habit_words == <<"daily", "habit", "routine", "every day">>
project_words == <<"project", "build", "create", "complete">>

\* _identify_implicit_metrics
\* the word lists that _identify_implicit_metrics tests, in order, and the
\* metric each appends: name, unit, targetValue
implicit_words == <<fitness_words, learning_words, reading_words, habit_words, project_words>>
implicit_metrics ==
  <<<<"workout_sessions", "sessions", 12>>,
    <<"study_hours", "hours", 20>>,
    <<"books_read", "books", 1>>,
    <<"consecutive_days", "days", 30>>,
    <<"completion_percentage", "percent", 100>>>>

\* a metric whose unit and target are literals of the code
LiteralMetric(m, confidence) == Metric(m[1], Spell[m[2]], FromInt(m[3]), confidence)

\* _identify_implicit_metrics
identify_implicit_metrics(description) ==
  With(Lower(description), LAMBDA text :
    JoinWith(<<>>,
      List([k \in 1..Len(implicit_words) |->
              IF AnyIn(implicit_words[k], text)
              THEN <<LiteralMetric(implicit_metrics[k], "medium")>> ELSE <<>>])))

\* _suggest_default_metrics
suggest_default_metrics ==
  <<LiteralMetric(<<"progress_score", "points", 100>>, "low")>>

\* confidence_scores, in tenths
confidence_scores == [high |-> Tenths(9), medium |-> Tenths(6), low |-> Tenths(3)]

\* _calculate_metrics_confidence: min(1.0, total_confidence / len(metrics))
calculate_metrics_confidence(metrics) ==
  IF metrics = <<>> THEN Zero
  ELSE FMin(One, FDiv(FSum(List([k \in 1..Len(metrics) |-> confidence_scores[metrics[k].confidence]])),
                      Len(metrics)))

MetricLimit == 5

\* the dictionary of the except branch of MetricsIdentificationTool.run
metrics_fallback ==
  [metrics |-> <<LiteralMetric(<<"completion_status", "percent", 100>>, "low")>>,
   confidence |-> Tenths(2)]

\* MetricsIdentificationTool.run suggesting the default metric whenever no
\* numeric value was found, before looking for implicit metrics
metrics_run_default_without_numbers(description) ==
  IF ~description.str THEN metrics_fallback
  ELSE With(NumericMetrics(Lower(description.text)), LAMBDA found :
         With(IF found = <<>> THEN suggest_default_metrics
              ELSE found \o identify_implicit_metrics(description.text), LAMBDA metrics :
           [metrics |-> Take(metrics, MetricLimit),
            confidence |-> calculate_metrics_confidence(metrics)]))

\* MetricsIdentificationTool.run
metrics_run(description) ==
  IF ~description.str THEN metrics_fallback
  ELSE With(NumericMetrics(Lower(description.text))
            \o identify_implicit_metrics(description.text), LAMBDA found :
         With(IF found = <<>> THEN suggest_default_metrics ELSE found, LAMBDA metrics :
           [metrics |-> Take(metrics, MetricLimit),
            confidence |-> calculate_metrics_confidence(metrics)]))

(***************************************************************************)
(* ConstraintExtractionTool                                                *)
(***************************************************************************)
\* _extract_time_constraints
time_constraint_patterns ==
  CompileAll(<<
    \* (?:only|just)\s+(\d+\s+(?:hours?|minutes?|days?)\s+(?:per|each|a)\s+\w+)
    <<Alt(<<<<Lit("only")>>, <<Lit("just")>>>>), Rep(1, Unbounded, <<In(WhiteSpace)>>), Grp(1, <<Rep(1, Unbounded, <<In(Digit)>>), Rep(1, Unbounded, <<In(WhiteSpace)>>), Alt(<<<<Lit("hour"), Rep(0, 1, <<Lit("s")>>)>>, <<Lit("minute"), Rep(0, 1, <<Lit("s")>>)>>, <<Lit("day"), Rep(0, 1, <<Lit("s")>>)>>>>), Rep(1, Unbounded, <<In(WhiteSpace)>>), Alt(<<<<Lit("per")>>, <<Lit("each")>>, <<Lit("a")>>>>), Rep(1, Unbounded, <<In(WhiteSpace)>>), Rep(1, Unbounded, <<In(WordChar)>>)>>)>>,
    \* (?:limited|restricted)\s+(?:to|by)\s+([^.]+time[^.]*)
    <<Alt(<<<<Lit("limited")>>, <<Lit("restricted")>>>>), Rep(1, Unbounded, <<In(WhiteSpace)>>), Alt(<<<<Lit("to")>>, <<Lit("by")>>>>), Rep(1, Unbounded, <<In(WhiteSpace)>>), Grp(1, <<Rep(1, Unbounded, <<NotIn({"."})>>), Lit("time"), Rep(0, Unbounded, <<NotIn({"."})>>)>>)>>,
    \* (?:busy|occupied|unavailable)\s+([^.]+)
    <<Alt(<<<<Lit("busy")>>, <<Lit("occupied")>>, <<Lit("unavailable")>>>>), Rep(1, Unbounded, <<In(WhiteSpace)>>), Grp(1, <<Rep(1, Unbounded, <<NotIn({"."})>>)>>)>>,
    \* (?:deadline|due)\s+([^.]+)
    <<Alt(<<<<Lit("deadline")>>, <<Lit("due")>>>>), Rep(1, Unbounded, <<In(WhiteSpace)>>), Grp(1, <<Rep(1, Unbounded, <<NotIn({"."})>>)>>)>>,
    \* (\d+\s+hours?\s+per\s+\w+)
    <<Grp(1, <<Rep(1, Unbounded, <<In(Digit)>>), Rep(1, Unbounded, <<In(WhiteSpace)>>), Lit("hour"), Rep(0, 1, <<Lit("s")>>), Rep(1, Unbounded, <<In(WhiteSpace)>>), Lit("per"), Rep(1, Unbounded, <<In(WhiteSpace)>>), Rep(1, Unbounded, <<In(WordChar)>>)>>)>>
  >>)

\* _extract_resource_constraints
resource_constraint_patterns ==
  CompileAll(<<
    \* (?:budget|money|cost)\s+(?:of|is|limited to)\s+([^.]+)
    <<Alt(<<<<Lit("budget")>>, <<Lit("money")>>, <<Lit("cost")>>>>), Rep(1, Unbounded, <<In(WhiteSpace)>>), Alt(<<<<Lit("of")>>, <<Lit("is")>>, <<Lit("limited to")>>>>), Rep(1, Unbounded, <<In(WhiteSpace)>>), Grp(1, <<Rep(1, Unbounded, <<NotIn({"."})>>)>>)>>,
    \* (?:no|without|lack of|limited)\s+(money|budget|funds|equipment|tools|resources)
    <<Alt(<<<<Lit("no")>>, <<Lit("without")>>, <<Lit("lack of")>>, <<Lit("limited")>>>>), Rep(1, Unbounded, <<In(WhiteSpace)>>), Grp(1, <<Alt(<<<<Lit("money")>>, <<Lit("budget")>>, <<Lit("funds")>>, <<Lit("equipment")>>, <<Lit("tools")>>, <<Lit("resources")>>>>)>>)>>,
    \* (?:can\'t afford|too expensive|costly)\s+([^.]+)
    <<Alt(<<<<Lit("can't afford")>>, <<Lit("too expensive")>>, <<Lit("costly")>>>>), Rep(1, Unbounded, <<In(WhiteSpace)>>), Grp(1, <<Rep(1, Unbounded, <<NotIn({"."})>>)>>)>>,
    \* (?:need|require|must have)\s+(equipment|tools|resources|materials)\s+([^.]+)
    <<Alt(<<<<Lit("need")>>, <<Lit("require")>>, <<Lit("must have")>>>>), Rep(1, Unbounded, <<In(WhiteSpace)>>), Grp(1, <<Alt(<<<<Lit("equipment")>>, <<Lit("tools")>>, <<Lit("resources")>>, <<Lit("materials")>>>>)>>), Rep(1, Unbounded, <<In(WhiteSpace)>>), Grp(2, <<Rep(1, Unbounded, <<NotIn({"."})>>)>>)>>
  >>)

\* _extract_skill_constraints
skill_constraint_patterns ==
  CompileAll(<<
    \* (?:don\'t know|never|no experience|beginner|new to)\s+([^.]+)
    <<Alt(<<<<Lit("don't know")>>, <<Lit("never")>>, <<Lit("no experience")>>, <<Lit("beginner")>>, <<Lit("new to")>>>>), Rep(1, Unbounded, <<In(WhiteSpace)>>), Grp(1, <<Rep(1, Unbounded, <<NotIn({"."})>>)>>)>>,
    \* (?:need to learn|must learn|have to study)\s+([^.]+)
    <<Alt(<<<<Lit("need to learn")>>, <<Lit("must learn")>>, <<Lit("have to study")>>>>), Rep(1, Unbounded, <<In(WhiteSpace)>>), Grp(1, <<Rep(1, Unbounded, <<NotIn({"."})>>)>>)>>,
    \* (?:lack|missing|without)\s+(skills?|knowledge|experience)\s+([^.]*)
    <<Alt(<<<<Lit("lack")>>, <<Lit("missing")>>, <<Lit("without")>>>>), Rep(1, Unbounded, <<In(WhiteSpace)>>), Grp(1, <<Alt(<<<<Lit("skill"), Rep(0, 1, <<Lit("s")>>)>>, <<Lit("knowledge")>>, <<Lit("experience")>>>>)>>), Rep(1, Unbounded, <<In(WhiteSpace)>>), Grp(2, <<Rep(0, Unbounded, <<NotIn({"."})>>)>>)>>,
    \* (?:difficult|hard|challenging)\s+(?:because|since)\s+([^.]+)
    <<Alt(<<<<Lit("difficult")>>, <<Lit("hard")>>, <<Lit("challenging")>>>>), Rep(1, Unbounded, <<In(WhiteSpace)>>), Alt(<<<<Lit("because")>>, <<Lit("since")>>>>), Rep(1, Unbounded, <<In(WhiteSpace)>>), Grp(1, <<Rep(1, Unbounded, <<NotIn({"."})>>)>>)>>
  >>)

\* _extract_external_constraints
external_constraint_patterns ==
  CompileAll(<<
    \* (?:depends on|waiting for|need approval from)\s+([^.]+)
    <<Alt(<<<<Lit("depends on")>>, <<Lit("waiting for")>>, <<Lit("need approval from")>>>>), Rep(1, Unbounded, <<In(WhiteSpace)>>), Grp(1, <<Rep(1, Unbounded, <<NotIn({"."})>>)>>)>>,
    \* (?:weather|season|location)\s+(?:dependent|specific|limited)\s+([^.]*)
    <<Alt(<<<<Lit("weather")>>, <<Lit("season")>>, <<Lit("location")>>>>), Rep(1, Unbounded, <<In(WhiteSpace)>>), Alt(<<<<Lit("dependent")>>, <<Lit("specific")>>, <<Lit("limited")>>>>), Rep(1, Unbounded, <<In(WhiteSpace)>>), Grp(1, <<Rep(0, Unbounded, <<NotIn({"."})>>)>>)>>,
    \* (?:others|family|work|job)\s+(?:prevents?|limits?|restricts?)\s+([^.]*)
    <<Alt(<<<<Lit("others")>>, <<Lit("family")>>, <<Lit("work")>>, <<Lit("job")>>>>), Rep(1, Unbounded, <<In(WhiteSpace)>>), Alt(<<<<Lit("prevent"), Rep(0, 1, <<Lit("s")>>)>>, <<Lit("limit"), Rep(0, 1, <<Lit("s")>>)>>, <<Lit("restrict"), Rep(0, 1, <<Lit("s")>>)>>>>), Rep(1, Unbounded, <<In(WhiteSpace)>>), Grp(1, <<Rep(0, Unbounded, <<NotIn({"."})>>)>>)>>,
    \* (?:availability|schedule|calendar)\s+(?:conflicts?|issues?)\s+([^.]*)
    <<Alt(<<<<Lit("availability")>>, <<Lit("schedule")>>, <<Lit("calendar")>>>>), Rep(1, Unbounded, <<In(WhiteSpace)>>), Alt(<<<<Lit("conflict"), Rep(0, 1, <<Lit("s")>>)>>, <<Lit("issue"), Rep(0, 1, <<Lit("s")>>)>>>>), Rep(1, Unbounded, <<In(WhiteSpace)>>), Grp(1, <<Rep(0, Unbounded, <<NotIn({"."})>>)>>)>>
  >>)

\* _extract_personal_constraints
personal_constraint_patterns ==
  CompileAll(<<
    \* (?:afraid|scared|worried|anxious)\s+(?:of|about|that)\s+([^.]+)
    <<Alt(<<<<Lit("afraid")>>, <<Lit("scared")>>, <<Lit("worried")>>, <<Lit("anxious")>>>>), Rep(1, Unbounded, <<In(WhiteSpace)>>), Alt(<<<<Lit("of")>>, <<Lit("about")>>, <<Lit("that")>>>>), Rep(1, Unbounded, <<In(WhiteSpace)>>), Grp(1, <<Rep(1, Unbounded, <<NotIn({"."})>>)>>)>>,
    \* (?:health|medical|physical)\s+(?:issues?|problems?|limitations?)\s+([^.]*)
    <<Alt(<<<<Lit("health")>>, <<Lit("medical")>>, <<Lit("physical")>>>>), Rep(1, Unbounded, <<In(WhiteSpace)>>), Alt(<<<<Lit("issue"), Rep(0, 1, <<Lit("s")>>)>>, <<Lit("problem"), Rep(0, 1, <<Lit("s")>>)>>, <<Lit("limitation"), Rep(0, 1, <<Lit("s")>>)>>>>), Rep(1, Unbounded, <<In(WhiteSpace)>>), Grp(1, <<Rep(0, Unbounded, <<NotIn({"."})>>)>>)>>,
    \* (?:motivation|discipline|willpower)\s+(?:issues?|problems?|lack)\s+([^.]*)
    <<Alt(<<<<Lit("motivation")>>, <<Lit("discipline")>>, <<Lit("willpower")>>>>), Rep(1, Unbounded, <<In(WhiteSpace)>>), Alt(<<<<Lit("issue"), Rep(0, 1, <<Lit("s")>>)>>, <<Lit("problem"), Rep(0, 1, <<Lit("s")>>)>>, <<Lit("lack")>>>>), Rep(1, Unbounded, <<In(WhiteSpace)>>), Grp(1, <<Rep(0, Unbounded, <<NotIn({"."})>>)>>)>>,
    \* (?:procrastination|lazy|unmotivated)\s+([^.]*)
    <<Alt(<<<<Lit("procrastination")>>, <<Lit("lazy")>>, <<Lit("unmotivated")>>>>), Rep(1, Unbounded, <<In(WhiteSpace)>>), Grp(1, <<Rep(0, Unbounded, <<NotIn({"."})>>)>>)>>
  >>)

\* for each pattern: constraints.extend([m.strip() for m in matches if m.strip()])
StrippedMatches(patterns, text) == StripAll(FindAllOf(patterns, 1, text))

\* the loop of _extract_resource_constraints and _extract_skill_constraints:
\* tuples of groups are joined with a space, strings are stripped and filtered
JoinedMatches(patterns, text) ==
  JoinWith(<<>>,
    List([k \in 1..Len(patterns) |->
            With(findall(patterns[k], text), LAMBDA matches :
              IF matches # <<>> /\ patterns[k].groups > 1
              THEN List([j \in 1..Len(matches) |-> JoinWith(<<" ">>, matches[j])])
              ELSE StripAll(matches))]))

category_order ==
  <<"time_constraints", "resource_constraints", "skill_constraints",
    "external_constraints", "personal_constraints">>

\* the dict constraints of run: category -> list of constraint texts
extract_categories(description) ==
  With(Lower(description), LAMBDA text :
    [time_constraints |-> StrippedMatches(time_constraint_patterns, text),
     resource_constraints |-> JoinedMatches(resource_constraint_patterns, text),
     skill_constraints |-> JoinedMatches(skill_constraint_patterns, text),
     external_constraints |-> StrippedMatches(external_constraint_patterns, text),
     personal_constraints |-> StrippedMatches(personal_constraint_patterns, text)])

high_severity_words == <<"impossible", "never", "can't", "unable", "critical", "major">>
medium_severity_words == <<"difficult", "challenging", "limited", "restricted", "problem">>

\* _assess_constraint_severity
severity_levels == <<"high", "medium">>
severity_words == <<high_severity_words, medium_severity_words>>

\* _assess_constraint_severity looking for the words in the description
assess_constraint_severity_of_description(constraint, description) ==
  With({k \in 1..2 : AnyIn(severity_words[k], Lower(description))}, LAMBDA hits :
    IF hits # {} THEN severity_levels[Min(hits)] ELSE "low")

\* _assess_constraint_severity
assess_constraint_severity(constraint, description) ==
  With({k \in 1..2 : AnyIn(severity_words[k], Lower(constraint))}, LAMBDA hits :
    IF hits # {} THEN severity_levels[Min(hits)] ELSE "low")

\* _calculate_constraint_confidence without the cap of the bonus
calculate_constraint_confidence_uncapped(constraints) ==
  IF constraints = <<>> THEN Tenths(3)
  ELSE FMin(One, FAdd(Tenths(5), FMul(Tenths(1), Len(constraints))))

\* _calculate_constraint_confidence
calculate_constraint_confidence(constraints) ==
  IF constraints = <<>> THEN Tenths(3)
  ELSE FMin(One, FAdd(Tenths(5), FMin(Tenths(4), FMul(Tenths(1), Len(constraints)))))

\* the nested loop of run over constraints.items()
Flatten(categories, description) ==
  JoinWith(<<>>,
    List([k \in 1..Len(category_order) |->
            List([j \in 1..Len(categories[category_order[k]]) |->
                    [constraint |-> categories[category_order[k]][j],
                     category |-> category_order[k],
                     severity |-> assess_constraint_severity(categories[category_order[k]][j],
                                                             description)]])]))

\* the dictionary of the except branch of ConstraintExtractionTool.run
constraints_fallback ==
  [constraints |-> <<>>, categories |-> EmptyDict, total_count |-> 0, confidence |-> Tenths(2)]

\* a run() whose total_count is len() of the categories dictionary
constraints_run_counting_categories(description) ==
  IF ~description.str THEN constraints_fallback
  ELSE With(extract_categories(description.text), LAMBDA categories :
         With(Flatten(categories, description.text), LAMBDA all_constraints :
           [constraints |-> all_constraints,
            categories |-> categories,
            total_count |-> Cardinality(DOMAIN categories),
            confidence |-> calculate_constraint_confidence(all_constraints)]))

\* ConstraintExtractionTool.run
constraints_run(description) ==
  IF ~description.str THEN constraints_fallback
  ELSE With(extract_categories(description.text), LAMBDA categories :
         With(Flatten(categories, description.text), LAMBDA all_constraints :
           [constraints |-> all_constraints,
            categories |-> categories,
            total_count |-> Len(all_constraints),
            confidence |-> calculate_constraint_confidence(all_constraints)]))

(***************************************************************************)
(* NLPAgent                                                                *)
(***************************************************************************)
\* the dictionary d without some fields
Without(d, fields) == [k \in DOMAIN d \ fields |-> d[k]]

\* d.get(key, default)
Get(d, key, default) == IF key \in DOMAIN d THEN d[key] ELSE default

\* the sum of the four confidences, not divided by their number
sum_of_confidences(intent, timeframe, metrics, constraints) ==
  FSum(<<Get(intent, "confidence", Tenths(5)), Get(timeframe, "confidence", Tenths(5)),
         Get(metrics, "confidence", Tenths(5)), Get(constraints, "confidence", Tenths(5))>>)

\* _calculate_overall_confidence: sum(confidences) / len(confidences)
calculate_overall_confidence(intent, timeframe, metrics, constraints) ==
  FDiv(FSum(<<Get(intent, "confidence", Tenths(5)), Get(timeframe, "confidence", Tenths(5)),
              Get(metrics, "confidence", Tenths(5)), Get(constraints, "confidence", Tenths(5))>>),
       4)

\* a summary step that subscripts intent['outcome'] as well
SummaryReadsOutcome(analysis) ==
  \E key \in {"domain", "action", "outcome"} : key \notin DOMAIN analysis.intent

\* _generate_analysis_summary raises KeyError where intent['domain'] or
\* intent['action'] does
SummaryRaises(analysis) ==
  "domain" \notin DOMAIN analysis.intent \/ "action" \notin DOMAIN analysis.intent

\* _generate_analysis_summary: the parts of the summary sentence, in order
generate_analysis_summary(analysis) ==
  LET intent == analysis.intent
      timeframe == analysis.timeframe
      end_date == Get(timeframe, "endDate", <<>>)
      duration == Get(timeframe, "duration", EmptyDict)
      metric_count == Len(Get(analysis.metrics, "metrics", <<>>))
      confidence == analysis.overall_confidence
  IN <<[part |-> "classified", domain |-> intent.domain, action |-> intent.action]>>
     \o (IF end_date # <<>> THEN <<[part |-> "completion_by", date |-> end_date[1]]>>
         ELSE IF "days" \in DOMAIN duration
              THEN <<[part |-> "estimated_duration", days |-> duration["days"]]>>
              ELSE <<>>)
     \o (IF metric_count > 0 THEN <<[part |-> "identified_metrics", count |-> metric_count]>> ELSE <<>>)
     \o <<[part |-> "confidence",
           level |-> IF FLess(Tenths(7), confidence) THEN "high"
                     ELSE IF FLess(Tenths(4), confidence) THEN "medium" ELSE "low"]>>

RecommendationLimit == 5

\* _generate_recommendations with <= 0.6 for < 0.6
generate_recommendations_at_most(analysis) ==
  LET domain == Get(analysis.intent, "domain", "")
  IN Take(
       (IF ~FLess(Tenths(6), Get(analysis.intent, "confidence", Tenths(5)))
        THEN <<"Consider providing more specific details about what you want to achieve">> ELSE <<>>)
       \o (IF ~FLess(Tenths(6), Get(analysis.timeframe, "confidence", Tenths(5)))
           THEN <<"Add specific deadlines or timeframes to make the goal more time-bound">> ELSE <<>>)
       \o (IF ~FLess(Tenths(6), Get(analysis.metrics, "confidence", Tenths(5)))
           THEN <<"Include measurable outcomes or success criteria">> ELSE <<>>)
       \o (IF Get(analysis.constraints, "total_count", 0) = 0
           THEN <<"Consider potential obstacles or constraints that might affect your goal">> ELSE <<>>)
       \o (IF domain = "fitness"
           THEN <<"Consider tracking specific metrics like workout frequency or performance improvements">>
           ELSE IF domain = "learning"
           THEN <<"Break down the learning goal into specific skills or knowledge areas">>
           ELSE IF domain = "career"
           THEN <<"Define specific career milestones or skill developments">>
           ELSE <<>>),
       RecommendationLimit)

\* _generate_recommendations
generate_recommendations(analysis) ==
  LET domain == Get(analysis.intent, "domain", "")
  IN Take(
       (IF FLess(Get(analysis.intent, "confidence", Tenths(5)), Tenths(6))
        THEN <<"Consider providing more specific details about what you want to achieve">> ELSE <<>>)
       \o (IF FLess(Get(analysis.timeframe, "confidence", Tenths(5)), Tenths(6))
           THEN <<"Add specific deadlines or timeframes to make the goal more time-bound">> ELSE <<>>)
       \o (IF FLess(Get(analysis.metrics, "confidence", Tenths(5)), Tenths(6))
           THEN <<"Include measurable outcomes or success criteria">> ELSE <<>>)
       \o (IF Get(analysis.constraints, "total_count", 0) = 0
           THEN <<"Consider potential obstacles or constraints that might affect your goal">> ELSE <<>>)
       \o (IF domain = "fitness"
           THEN <<"Consider tracking specific metrics like workout frequency or performance improvements">>
           ELSE IF domain = "learning"
           THEN <<"Break down the learning goal into specific skills or knowledge areas">>
           ELSE IF domain = "career"
           THEN <<"Define specific career milestones or skill developments">>
           ELSE <<>>),
       RecommendationLimit)

\* a fallback report put together from the four tools' own fallbacks
create_fallback_analysis_of_tools(description, now) ==
  [original_description |-> description,
   intent |-> intent_fallback,
   timeframe |-> Without(timeframe_fallback, {"error"}),
   metrics |-> metrics_fallback,
   constraints |-> constraints_fallback,
   overall_confidence |-> Tenths(2),
   processing_timestamp |-> isoformat(now),
   agent_version |-> "1.0.0",
   error |-> TRUE,
   summary |-> <<[part |-> "failed"]>>,
   recommendations |-> <<"Retry analysis with simplified description", "Consider manual goal creation">>]

\* _create_fallback_analysis; error stands for the presence of the 'error' text
create_fallback_analysis(description, now) ==
  [original_description |-> description,
   intent |-> [domain |-> "projects", action |-> achieve, outcome |-> goal_completion,
               context |-> <<>>, urgency |-> "medium", confidence |-> Tenths(2)],
   timeframe |-> [startDate |-> <<>>, endDate |-> <<>>, duration |-> [days |-> 30], milestones |-> <<>>,
                  flexibility |-> "flexible", extractedPhrases |-> <<>>, confidence |-> Tenths(2)],
   metrics |-> [metrics |-> <<LiteralMetric(<<"completion_status", "percent", 100>>, "low")>>,
                confidence |-> Tenths(2)],
   constraints |-> [constraints |-> <<>>, categories |-> EmptyDict, total_count |-> 0,
                    confidence |-> Tenths(2)],
   overall_confidence |-> Tenths(2),
   processing_timestamp |-> isoformat(now),
   agent_version |-> "1.0.0",
   error |-> TRUE,
   summary |-> <<[part |-> "failed"]>>,
   recommendations |-> <<"Retry analysis with simplified description", "Consider manual goal creation">>]

\* the analysis dictionary that process_goal_description builds from the
\* four tool results
merge(description, now, intent_analysis, timeframe_analysis, metrics_analysis, constraints_analysis) ==
  [original_description |-> description,
   intent |-> intent_analysis,
   timeframe |-> timeframe_analysis,
   metrics |-> metrics_analysis,
   constraints |-> constraints_analysis,
   overall_confidence |-> calculate_overall_confidence(
     intent_analysis, timeframe_analysis, metrics_analysis, constraints_analysis),
   processing_timestamp |-> isoformat(now),
   agent_version |-> "1.0.0"]

\* analysis['summary'] = ...; analysis['recommendations'] = ...
with_summary(analysis) ==
  [k \in DOMAIN analysis \cup {"summary", "recommendations"} |->
     IF k = "summary" THEN generate_analysis_summary(analysis)
     ELSE IF k = "recommendations" THEN generate_recommendations(analysis)
     ELSE analysis[k]]

\* the call's outcome when an exception leaves process_goal_description
Raised == [raised |-> TRUE]

\* process_goal_description without its try ... except
combine_unguarded(description, now, intent_analysis, timeframe_analysis, metrics_analysis, constraints_analysis) ==
  With(merge(description, now, intent_analysis, timeframe_analysis, metrics_analysis,
             constraints_analysis), LAMBDA analysis :
    IF SummaryRaises(analysis) THEN Raised ELSE with_summary(analysis))

\* The part of process_goal_description after the four tool calls: the
\* analysis with its summary and recommendations, or the fallback analysis
\* when the summary step raises.
combine(description, now, intent_analysis, timeframe_analysis, metrics_analysis, constraints_analysis) ==
  With(merge(description, now, intent_analysis, timeframe_analysis, metrics_analysis,
             constraints_analysis), LAMBDA analysis :
    IF SummaryRaises(analysis) THEN create_fallback_analysis(description, now)
    ELSE with_summary(analysis))

(***************************************************************************)
(* The agent's tool attributes.  tools gives, for each attribute, the      *)
(* fields that the run() of the object bound to it leaves out of its       *)
(* result: none for the tools that __init__ constructs, one field for a    *)
(* stand-in bound to the attribute later.                                  *)
(***************************************************************************)
RealTools == [intent_tool |-> {}, timeframe_tool |-> {}, metrics_tool |-> {}, constraints_tool |-> {}]

\* the fields of the dictionary each tool returns on its normal path
tool_fields ==
  [intent_tool |-> {"domain", "action", "outcome", "context", "urgency", "confidence"},
   timeframe_tool |-> {"startDate", "endDate", "duration", "milestones", "flexibility",
                       "extractedPhrases", "confidence"},
   metrics_tool |-> {"metrics", "confidence"},
   constraints_tool |-> {"constraints", "categories", "total_count", "confidence"}]

\* self.intent_tool.run(description) and its three siblings
intent_tool_run(tools, description) == Without(intent_run(description), tools.intent_tool)
timeframe_tool_run(tools, description, now) == Without(timeframe_run(description, now), tools.timeframe_tool)
metrics_tool_run(tools, description) == Without(metrics_run(description), tools.metrics_tool)
constraints_tool_run(tools, description) == Without(constraints_run(description), tools.constraints_tool)

(***************************************************************************)
(* The state machine.  One agent serves one request: the description is    *)
(* drawn when the behaviour starts, one of the five public operations is   *)
(* called on it, and the same operation may be called on it once more,     *)
(* possibly at a later clock reading.                                      *)
(***************************************************************************)
VARIABLES
  now,          \* what datetime.now() returns
  ticks,        \* how often the clock has advanced
  description,  \* the argument of the calls: [str, text]
  tools,        \* the tool attributes of the agent
  op,           \* the operation called last, "none" before the first call
  called,       \* the clock reading at the last call
  returned,     \* what each tool run by the last call returned
  result,       \* what the last call returned
  earlier,      \* <<[now, result] of the call before the last>>, <<>> if none
  threads,      \* the calls made at once, one a thread; <<>> when calls are made in turn
  workflow      \* the orchestrator's running workflow: its position and locals; None when it runs none

vars == <<now, ticks, description, tools, op, called, returned, result, earlier, threads, workflow>>

\* The goal descriptions: up to MaxPhrases phrases of the phrase book, joined
\* by single spaces (none gives the empty string); and one argument that is
\* not a str (None).
Phrases ==
  <<
    <<"I", "will", "lose", "15", "pounds", "by", "3/15/2025", "and", "get", "some", "stuff",
      "done", "soon">>,
    <<"do", "stuff">>,
    <<"I", "want", "to", "run", "a", "marathon", "in", "4", "hours", "by", "3/15/2025">>,
    <<"first", "run", "5", "miles,", "then", "3", "times,", "next", "45", "minutes,", "finally",
      "2", "hours,", "then", "10", "km,", "next", "20", "reps">>,
    <<"can't", "afford", "a", "gym,", "only", "2", "hours", "per", "week">>,
    <<"daily", "workout">>,
    <<"by", "tomorrow">>,
    <<"read", "12", "books", "by", "march", "3rd">>
  >>
MaxPhrases == 1

Spelt(words) == With(Spell, LAMBDA spell : List([k \in 1..Len(words) |-> spell[words[k]]]))
PhraseTexts == List([k \in 1..Len(Phrases) |-> JoinWith(<<" ">>, Spelt(Phrases[k]))])
TextOf(s) == JoinWith(<<" ">>, List([k \in 1..Len(s) |-> PhraseTexts[s[k]]]))
Str(text) == [str |-> TRUE, text |-> text]
NotAStr == [str |-> FALSE, text |-> <<>>]
InputsOf(n) == {Str(TextOf(s)) : s \in UNION {[1..m -> 1..Len(Phrases)] : m \in 0..n}} \cup {NotAStr}
Inputs == InputsOf(MaxPhrases)

\* The clock: TicksPerDay readings a day.  The first call is made late on
\* 28 February of a leap year.
TicksPerDay == 2
MaxTicks == 1
StartClock == DateTime(2024, 2, 28, TicksPerDay - 1)

None == [none |-> TRUE]

Init ==
  /\ now = StartClock
  /\ ticks = 0
  /\ description \in Inputs
  /\ tools = RealTools
  /\ op = "none"
  /\ called = None
  /\ returned = None
  /\ result = None
  /\ earlier = <<>>
  /\ threads = <<>>
  /\ workflow = None

\* time passes between two calls
Tick ==
  /\ op # "none"
  /\ ticks < MaxTicks
  /\ ticks' = ticks + 1
  /\ now' = IF now.tod + 1 < TicksPerDay THEN [now EXCEPT !.tod = now.tod + 1]
            ELSE [PlusDays(now, 1) EXCEPT !.tod = 0]
  /\ UNCHANGED <<description, tools, op, called, returned, result, earlier, threads, workflow>>

\* NLPAgent.process_goal_description(description)
ProcessGoalDescription ==
  /\ op \in {"none", "process_goal_description"}
  /\ earlier = <<>>
  /\ op' = "process_goal_description"
  /\ called' = now
  /\ returned' = [intent_tool |-> intent_tool_run(tools, description),
                  timeframe_tool |-> timeframe_tool_run(tools, description, now),
                  metrics_tool |-> metrics_tool_run(tools, description),
                  constraints_tool |-> constraints_tool_run(tools, description)]
  /\ result' = combine(description, now, returned'.intent_tool, returned'.timeframe_tool,
                       returned'.metrics_tool, returned'.constraints_tool)
  /\ earlier' = IF op = "none" THEN <<>> ELSE <<[now |-> called, result |-> result]>>
  /\ UNCHANGED <<now, ticks, description, tools, threads, workflow>>

\* NLPAgent.extract_intent_only(description)
ExtractIntentOnly ==
  /\ op \in {"none", "extract_intent_only"}
  /\ earlier = <<>>
  /\ op' = "extract_intent_only"
  /\ called' = now
  /\ returned' = [intent_tool |-> intent_tool_run(tools, description)]
  /\ result' = returned'.intent_tool
  /\ earlier' = IF op = "none" THEN <<>> ELSE <<[now |-> called, result |-> result]>>
  /\ UNCHANGED <<now, ticks, description, tools, threads, workflow>>

\* NLPAgent.extract_timeframe_only(description)
ExtractTimeframeOnly ==
  /\ op \in {"none", "extract_timeframe_only"}
  /\ earlier = <<>>
  /\ op' = "extract_timeframe_only"
  /\ called' = now
  /\ returned' = [timeframe_tool |-> timeframe_tool_run(tools, description, now)]
  /\ result' = returned'.timeframe_tool
  /\ earlier' = IF op = "none" THEN <<>> ELSE <<[now |-> called, result |-> result]>>
  /\ UNCHANGED <<now, ticks, description, tools, threads, workflow>>

\* NLPAgent.extract_metrics_only(description)
ExtractMetricsOnly ==
  /\ op \in {"none", "extract_metrics_only"}
  /\ earlier = <<>>
  /\ op' = "extract_metrics_only"
  /\ called' = now
  /\ returned' = [metrics_tool |-> metrics_tool_run(tools, description)]
  /\ result' = returned'.metrics_tool
  /\ earlier' = IF op = "none" THEN <<>> ELSE <<[now |-> called, result |-> result]>>
  /\ UNCHANGED <<now, ticks, description, tools, threads, workflow>>

\* NLPAgent.extract_constraints_only(description)
ExtractConstraintsOnly ==
  /\ op \in {"none", "extract_constraints_only"}
  /\ earlier = <<>>
  /\ op' = "extract_constraints_only"
  /\ called' = now
  /\ returned' = [constraints_tool |-> constraints_tool_run(tools, description)]
  /\ result' = returned'.constraints_tool
  /\ earlier' = IF op = "none" THEN <<>> ELSE <<[now |-> called, result |-> result]>>
  /\ UNCHANGED <<now, ticks, description, tools, threads, workflow>>

Next ==
  \/ Tick
  \/ ProcessGoalDescription
  \/ ExtractIntentOnly
  \/ ExtractTimeframeOnly
  \/ ExtractMetricsOnly
  \/ ExtractConstraintsOnly

Spec == Init /\ [][Next]_vars

(***************************************************************************)
(* The aggregator with a stand-in tool.  One tool attribute is bound, once *)
(* and before the first call, to an object whose run() returns the real    *)
(* tool's result without one of its fields; process_goal_description is    *)
(* then called once.                                                       *)
(***************************************************************************)
ReplaceTool ==
  /\ op = "none"
  /\ tools = RealTools
  /\ \E tool \in DOMAIN tool_fields : \E field \in tool_fields[tool] :
       tools' = [tools EXCEPT ![tool] = {field}]
  /\ UNCHANGED <<now, ticks, description, op, called, returned, result, earlier, threads, workflow>>

\* the first call of process_goal_description
FirstProcessGoalDescription ==
  /\ op = "none"
  /\ ProcessGoalDescription

InitReplaced == Init

NextReplaced ==
  \/ ReplaceTool
  \/ FirstProcessGoalDescription

SpecReplaced == InitReplaced /\ [][NextReplaced]_vars


(***************************************************************************)
(* One tool on its own.  The description is a sequence of phrases of a     *)
(* phrase book made for the tool, joined by single spaces, and the tool's  *)
(* extract_*_only operation is called on it.                               *)
(***************************************************************************)
\* the descriptions of up to n phrases of a book
Described(book, n) ==
  With(List([k \in 1..Len(book) |-> JoinWith(<<" ">>, Spelt(book[k]))]), LAMBDA texts :
    {Str(JoinWith(<<" ">>, List([k \in 1..Len(s) |-> texts[s[k]]]))) :
       s \in UNION {[1..m -> 1..Len(book)] : m \in 0..n}})

\* Phrases for the intent tool: verbs of two families, a word with a verb
\* ending, a filler word with a verb ending, urgency keywords and date cues
\* of each level, a vague word, and five words that are none of these.
IntentPhrases ==
  <<
    <<"lose">>, <<"Run">>, <<"walked">>, <<"need">>,
    <<"must">>, <<"soon">>, <<"eventually">>,
    <<"today">>, <<"next", "month">>, <<"this", "year">>,
    <<"stuff">>,
    <<"I", "really", "do", "like", "it">>
  >>
MaxIntentPhrases == 2
IntentInputs == Described(IntentPhrases, MaxIntentPhrases)

InitIntent ==
  /\ now = StartClock
  /\ ticks = 0
  /\ description \in IntentInputs
  /\ tools = RealTools
  /\ op = "none"
  /\ called = None
  /\ returned = None
  /\ result = None
  /\ earlier = <<>>
  /\ threads = <<>>
  /\ workflow = None

NextIntent == ExtractIntentOnly

SpecIntent == InitIntent /\ [][NextIntent]_vars


\* Phrases for the timeframe tool: durations, explicit dates of the three
\* formats (two of them no dates of the calendar), the eight relative
\* phrases, the three "in N" expressions, a keyword of each flexibility
\* class and a word that is none of these.
TimeframePhrases ==
  <<
    <<"3", "weeks">>, <<"4", "hours">>, <<"2", "days">>, <<"30hours">>,
    <<"3/15/2025">>, <<"4/1/26">>, <<"12-31-2025">>, <<"13/45/2025">>,
    <<"march", "3rd">>, <<"June", "10,", "2026">>, <<"February", "30">>,
    <<"today">>, <<"Tomorrow">>, <<"next", "week">>, <<"this", "week">>,
    <<"next", "month">>, <<"this", "month">>, <<"next", "year">>, <<"this", "year">>,
    <<"in", "2", "weeks">>, <<"in", "10", "days">>, <<"in", "3", "months">>,
    <<"eventually">>, <<"about">>, <<"must">>,
    <<"run">>
  >>
MaxTimeframePhrases == 2
TimeframeInputs == Described(TimeframePhrases, MaxTimeframePhrases)

\* The clock readings at which the timeframe tool is called: a Wednesday, the
\* 29 February after it, and a Sunday near the end of a year.
Clocks == {StartClock, DateTime(2024, 2, 29, 0), DateTime(2025, 12, 21, 1)}

InitTimeframe ==
  /\ now \in Clocks
  /\ ticks = 0
  /\ description \in TimeframeInputs
  /\ tools = RealTools
  /\ op = "none"
  /\ called = None
  /\ returned = None
  /\ result = None
  /\ earlier = <<>>
  /\ threads = <<>>
  /\ workflow = None

NextTimeframe == ExtractTimeframeOnly

SpecTimeframe == InitTimeframe /\ [][NextTimeframe]_vars

\* Phrases for the metrics tool: a number with a unit of each of the nine
\* patterns, with and without a fraction and white space, and a word that
\* no pattern matches.
MetricsPhrases ==
  <<
    <<"15", "pounds">>, <<"2.5kg">>, <<"5", "Miles">>, <<"3", "hours">>,
    <<"45", "minutes">>, <<"20", "dollars">>,
    <<"50", "percent">>, <<"5%">>, <<"7.25", "percent">>,
    <<"10", "reps">>, <<"12", "books">>, <<"500", "words">>,
    <<"lose">>, <<"daily">>,
    <<"1kg", "2km", "3hrs", "4min", "5%", "gym">>
  >>
MaxMetricsPhrases == 2
MetricsInputs == Described(MetricsPhrases, MaxMetricsPhrases)

InitMetrics ==
  /\ now = StartClock
  /\ ticks = 0
  /\ description \in MetricsInputs
  /\ tools = RealTools
  /\ op = "none"
  /\ called = None
  /\ returned = None
  /\ result = None
  /\ earlier = <<>>
  /\ threads = <<>>
  /\ workflow = None

NextMetrics == ExtractMetricsOnly

SpecMetrics == InitMetrics /\ [][NextMetrics]_vars

\* Phrases for the constraint tool: sentences whose captured text has a
\* high-severity word, a medium-severity word, both or neither, severity
\* words outside any captured text, and sentences with one, two and three
\* constraints.
ConstraintPhrases ==
  <<
    <<"can't", "afford", "a", "gym.">>,
    <<"busy", "with", "a", "major", "problem.">>,
    <<"worried", "about", "a", "difficult", "deadline", "today.">>,
    <<"only", "2", "hours", "per", "week", "due", "today.">>,
    <<"never">>, <<"it", "is", "impossible.">>, <<"limited", "budget">>
  >>
MaxConstraintPhrases == 2
ConstraintInputs == Described(ConstraintPhrases, MaxConstraintPhrases)

InitConstraints ==
  /\ now = StartClock
  /\ ticks = 0
  /\ description \in ConstraintInputs
  /\ tools = RealTools
  /\ op = "none"
  /\ called = None
  /\ returned = None
  /\ result = None
  /\ earlier = <<>>
  /\ threads = <<>>
  /\ workflow = None

NextConstraints == ExtractConstraintsOnly

SpecConstraints == InitConstraints /\ [][NextConstraints]_vars

(***************************************************************************)
(* process_goal_description on its own, called on descriptions made of     *)
(* phrases that raise or lower each of the four sections' confidences.     *)
(***************************************************************************)
\* Phrases for the whole analysis: a fitness, a learning and a career goal, a
\* date, a numeric metric, a constraint, a vague phrase and a project goal.
ReportPhrases ==
  <<
    <<"lose", "weight">>, <<"learn">>, <<"I", "want", "to", "get", "promoted">>,
    <<"by", "3/15/2025">>, <<"15", "pounds">>,
    <<"only", "2", "hours", "per", "week">>,
    <<"do", "stuff">>, <<"I", "will", "finish", "3", "chapters">>
  >>
MaxReportPhrases == 2
ReportInputs == Described(ReportPhrases, MaxReportPhrases) \cup {NotAStr}

InitReport ==
  /\ now = StartClock
  /\ ticks = 0
  /\ description \in ReportInputs
  /\ tools = RealTools
  /\ op = "none"
  /\ called = None
  /\ returned = None
  /\ result = None
  /\ earlier = <<>>
  /\ threads = <<>>
  /\ workflow = None

NextReport == ProcessGoalDescription

SpecReport == InitReport /\ [][NextReport]_vars



(***************************************************************************)
(* Several calls at once.  MaxThreads threads of control call operations   *)
(* of one agent, each once and each with a description of its own.  A      *)
(* call of process_goal_description takes a step for each tool's run and a *)
(* step for the rest of its body; a call of extract_*_only takes one step. *)
(* The steps of the threads interleave in every order, and the clock may   *)
(* advance between any two of them.  What the calls share is the agent     *)
(* with its tool attributes and the clock; the parameter and the local     *)
(* variables of a call belong to the frame of its thread.                  *)
(***************************************************************************)
MaxThreads == 2
Threads == 1..MaxThreads

\* the descriptions that the threads pass
ThreadInputs == {Str(PhraseTexts[5] \o <<" ">> \o PhraseTexts[7]), Str(PhraseTexts[8]), NotAStr}

Operations ==
  {"process_goal_description", "extract_intent_only", "extract_timeframe_only",
   "extract_metrics_only", "extract_constraints_only"}

\* the tool that extract_*_only runs
tool_of ==
  [extract_intent_only |-> "intent_tool", extract_timeframe_only |-> "timeframe_tool",
   extract_metrics_only |-> "metrics_tool", extract_constraints_only |-> "constraints_tool"]

\* the statements of process_goal_description in their order
statements == <<"intent_tool", "timeframe_tool", "metrics_tool", "constraints_tool", "return">>

\* one frame for all calls, as if the local variables were attributes
SharedFrame(thread) == 1

\* the frame in which a thread's call keeps its local variables: its own
Frame(thread) == thread

\* self.<tool>.run(argument) at a clock reading
tool_run(attributes, tool, argument, clock) ==
  CASE tool = "intent_tool" -> intent_tool_run(attributes, argument)
    [] tool = "timeframe_tool" -> timeframe_tool_run(attributes, argument, clock)
    [] tool = "metrics_tool" -> metrics_tool_run(attributes, argument)
    [] tool = "constraints_tool" -> constraints_tool_run(attributes, argument)

\* a thread that has not called yet
Idle == [op |-> "none", description |-> NotAStr, pc |-> "idle", locals |-> EmptyDict,
         read |-> None, result |-> None]

InitConcurrent ==
  /\ now = StartClock
  /\ ticks = 0
  /\ description = NotAStr
  /\ tools = RealTools
  /\ op = "none"
  /\ called = None
  /\ returned = None
  /\ result = None
  /\ earlier = <<>>
  /\ threads = [t \in Threads |-> Idle]
  /\ workflow = None

\* a thread calls an operation
Call ==
  \E t \in Threads : \E o \in Operations : \E d \in ThreadInputs :
    /\ threads[t].pc = "idle"
    /\ threads' = [threads EXCEPT ![t].op = o,
                                  ![t].description = d,
                                  ![t].pc = IF o = "process_goal_description" THEN statements[1]
                                            ELSE "run"]
    /\ UNCHANGED <<now, ticks, description, tools, op, called, returned, result, earlier, workflow>>

\* x_analysis = self.x_tool.run(description), a statement of
\* process_goal_description
RunTool ==
  \E t \in Threads : \E k \in 1..4 :
    /\ threads[t].op = "process_goal_description"
    /\ threads[t].pc = statements[k]
    /\ threads' = [threads EXCEPT
         ![t].pc = statements[k + 1],
         ![t].read = IF statements[k] = "timeframe_tool" THEN now ELSE @,
         ![Frame(t)].locals =
           (statements[k] :> tool_run(tools, statements[k], threads[t].description, now)) @@ @]
    /\ UNCHANGED <<now, ticks, description, tools, op, called, returned, result, earlier, workflow>>

\* the rest of process_goal_description: the analysis of the four local
\* variables is built and returned
Return ==
  \E t \in Threads :
    /\ threads[t].op = "process_goal_description"
    /\ threads[t].pc = "return"
    /\ threads' = [threads EXCEPT
         ![t].pc = "done",
         ![t].result = [at |-> now,
                        value |-> combine(threads[t].description, now,
                                          threads[Frame(t)].locals.intent_tool,
                                          threads[Frame(t)].locals.timeframe_tool,
                                          threads[Frame(t)].locals.metrics_tool,
                                          threads[Frame(t)].locals.constraints_tool)]]
    /\ UNCHANGED <<now, ticks, description, tools, op, called, returned, result, earlier, workflow>>

\* return self.x_tool.run(description), the body of extract_x_only
RunOnly ==
  \E t \in Threads :
    /\ threads[t].pc = "run"
    /\ threads' = [threads EXCEPT
         ![t].pc = "done",
         ![t].read = now,
         ![t].result = [at |-> now,
                        value |-> tool_run(tools, tool_of[threads[t].op], threads[t].description, now)]]
    /\ UNCHANGED <<now, ticks, description, tools, op, called, returned, result, earlier, workflow>>

\* time passes between two steps
Pass ==
  /\ ticks < MaxTicks
  /\ ticks' = ticks + 1
  /\ now' = IF now.tod + 1 < TicksPerDay THEN [now EXCEPT !.tod = now.tod + 1]
            ELSE [PlusDays(now, 1) EXCEPT !.tod = 0]
  /\ UNCHANGED <<description, tools, op, called, returned, result, earlier, threads, workflow>>

NextConcurrent ==
  \/ Call
  \/ RunTool
  \/ Return
  \/ RunOnly
  \/ Pass

SpecConcurrent == InitConcurrent /\ [][NextConcurrent]_vars

(***************************************************************************)
(* MasterOrchestratorAgent.  The agents that a workflow calls are backed by *)
(* a hosted model, so what they return is chosen freely from the outcomes   *)
(* their code can produce.  A workflow is modelled by its frame: its        *)
(* position, its local variables and, once it has returned, its result.     *)
(***************************************************************************)
\* BaseLifeAssistantAgent.handle_error: the dictionary with 'success': False
\* and the error; error stands for the error's text, type and time stamp
handle_error == [success |-> FALSE, error |-> TRUE]

(***************************************************************************)
(* The goal-refinement workflow.  Goals are dicts, which Python shares by   *)
(* reference: objects lists the goal dicts made so far and the frame and    *)
(* the history name a goal by its place in that list.                       *)
(***************************************************************************)
\* the largest max_iterations that a request asks for
MaxIterations == 3

\* the overallScore values that an analysis may carry
Scores == {50, 80, 81}

\* what goal_analysis_agent.run_async gives the workflow: an analysis with an
\* overallScore, which the model may also have written as something that is
\* no number, so that comparing it with 80 raises TypeError
Analyses == [orderable : {TRUE}, overallScore : Scores] \cup {[orderable |-> FALSE, overallScore |-> 0]}

\* if analysis.get('analysis', {}).get('overallScore', 0) > 80: break
good_enough(analysis) == analysis.overallScore > 80

\* input_data.get(...), current_goal = goal_data.copy(), refinement_history = []
\* (object 1 is the copy); feedback names whose words the next refinement
\* gets: 0 for the request's, k for the recommendations of round k
refinement_frame(max_iterations) ==
  [name |-> "goal_refinement", pc |-> "refine", max_iterations |-> max_iterations,
   iteration |-> 0, rounds |-> 0, feedback |-> 0,
   objects |-> <<[refinement_error |-> FALSE]>>,
   current_goal |-> 1, refined_goal |-> 0, refinement_history |-> <<>>, result |-> None]

\* the return statement after the loop
refinement_result(frame) ==
  [frame EXCEPT !.pc = "done",
                !.result = [success |-> TRUE, workflow_type |-> "goal_refinement",
                            final_goal |-> frame.current_goal,
                            refinement_history |-> frame.refinement_history,
                            iterations_completed |-> Len(frame.refinement_history)]]

\* the head of 'for iteration in range(max_iterations)': the next round, or
\* the return when the range is used up
next_round(frame) ==
  IF frame.iteration < frame.max_iterations THEN [frame EXCEPT !.pc = "refine"]
  ELSE refinement_result(frame)

\* goal_planning_agent.refine_async: a new validated goal dict or, when the
\* call of the model or the parsing raised, the dict it was given, with a
\* refinement_error entry put into it
refine_async(frame, refined) ==
  IF refined
  THEN [frame EXCEPT !.objects = Append(@, [refinement_error |-> FALSE]),
                     !.refined_goal = Len(frame.objects) + 1, !.pc = "analyze"]
  ELSE [frame EXCEPT !.objects[frame.current_goal].refinement_error = TRUE,
                     !.refined_goal = frame.current_goal, !.pc = "analyze"]

\* the rest of the loop body after the analysis came back
after_analysis(frame, analysis) ==
  With([frame EXCEPT !.rounds = @ + 1,
                     !.refinement_history =
                        Append(@, [iteration |-> frame.iteration + 1, goal |-> frame.refined_goal,
                                   score |-> analysis.overallScore])], LAMBDA recorded :
    IF ~analysis.orderable THEN [recorded EXCEPT !.pc = "done", !.result = handle_error]
    ELSE IF good_enough(analysis) THEN refinement_result(recorded)
    ELSE next_round([recorded EXCEPT !.current_goal = frame.refined_goal,
                                     !.feedback = frame.iteration + 1,
                                     !.iteration = @ + 1]))

InitOrchestrator ==
  /\ now = StartClock
  /\ ticks = 0
  /\ description = NotAStr
  /\ tools = RealTools
  /\ op = "none"
  /\ called = None
  /\ returned = None
  /\ result = None
  /\ earlier = <<>>
  /\ threads = <<>>
  /\ workflow = None

\* _create_goal_refinement_workflow is called, up to its first await
StartRefinement ==
  /\ workflow = None
  /\ \E max_iterations \in 0..MaxIterations :
       workflow' = next_round(refinement_frame(max_iterations))
  /\ UNCHANGED <<now, ticks, description, tools, op, called, returned, result, earlier, threads>>

\* await self.goal_planning_agent.refine_async(current_goal, feedback)
Refine ==
  /\ workflow # None
  /\ workflow.name = "goal_refinement"
  /\ workflow.pc = "refine"
  /\ \E refined \in BOOLEAN : workflow' = refine_async(workflow, refined)
  /\ UNCHANGED <<now, ticks, description, tools, op, called, returned, result, earlier, threads>>

\* await self.goal_analysis_agent.run_async(refined_goal), and the loop body
\* up to the next await or the return
Analyze ==
  /\ workflow # None
  /\ workflow.name = "goal_refinement"
  /\ workflow.pc = "analyze"
  /\ \E analysis \in Analyses : workflow' = after_analysis(workflow, analysis)
  /\ UNCHANGED <<now, ticks, description, tools, op, called, returned, result, earlier, threads>>

NextRefinement == StartRefinement \/ Refine \/ Analyze

SpecRefinement == InitOrchestrator /\ [][NextRefinement]_vars

(***************************************************************************)
(* orchestrate with the sequential workflow.  The agents of the list are    *)
(* named by their places 1..agents; calls records what each run was given.  *)
(***************************************************************************)
\* the longest list of agents
MaxAgents == 4

\* context.get('workflow_type', 'sequential'): not given, 'sequential', or a
\* type that orchestrate does not know
WorkflowTypes == {"", "sequential", "unknown"}

\* how a run of an agent may end
Outcomes == {"success", "failure", "no_success", "raises"}

\* the dict that agent.run returns
agent_result(agent, outcome) ==
  IF outcome = "no_success" THEN [agent_name |-> agent]
  ELSE [agent_name |-> agent, success |-> outcome = "success"]

\* context.get('input_data', {})
input_data_of(context) == Get(context, "input_data", EmptyDict)

\* results = [], current_data = context.get('input_data', {})
sequential_frame(agents, context) ==
  [name |-> "sequential", pc |-> "run", agents |-> agents, position |-> 1, context |-> context,
   current_data |-> input_data_of(context), results |-> <<>>, calls |-> <<>>, result |-> None]

\* the return statement after the loop
sequential_result(frame) ==
  [frame EXCEPT !.pc = "done",
                !.result = [success |-> TRUE, workflow_type |-> "sequential",
                            results |-> frame.results, final_result |-> frame.current_data]]

\* the head of 'for agent in agents'
next_agent(frame) ==
  IF frame.position <= frame.agents THEN [frame EXCEPT !.pc = "run"] ELSE sequential_result(frame)

\* a loop body that passes every result on
passes_on_every(run) == TRUE

\* if result.get('success', False)
passes_on(run) == Get(run, "success", FALSE)

\* the loop body for the agent at frame.position, whose run ends with outcome
run_agent(frame, outcome) ==
  With([frame EXCEPT !.calls = Append(@, [agent |-> frame.position, input_data |-> frame.current_data])],
       LAMBDA called_frame :
    IF outcome = "raises" THEN [called_frame EXCEPT !.pc = "done", !.result = handle_error]
    ELSE With(agent_result(frame.position, outcome), LAMBDA agent_run :
           With([called_frame EXCEPT !.results = Append(@, [agent |-> frame.position, result |-> agent_run])],
                LAMBDA appended :
             IF passes_on(agent_run)
             THEN next_agent([appended EXCEPT !.current_data = agent_run, !.position = @ + 1])
             ELSE sequential_result(appended))))

\* orchestrate(agents, context), up to the first agent's run
Orchestrate ==
  /\ workflow = None
  /\ \E agents \in 0..MaxAgents, workflow_type \in WorkflowTypes, given \in BOOLEAN :
       With((IF given THEN [input_data |-> [input |-> TRUE]] ELSE EmptyDict), LAMBDA data :
         With((IF workflow_type = "" THEN data
               ELSE [k \in DOMAIN data \cup {"workflow_type"} |->
                       IF k = "workflow_type" THEN workflow_type ELSE data[k]]), LAMBDA context :
           workflow' = IF Get(context, "workflow_type", "sequential") = "sequential"
                       THEN next_agent(sequential_frame(agents, context))
                       ELSE [sequential_frame(agents, context) EXCEPT !.pc = "done", !.result = handle_error]))
  /\ UNCHANGED <<now, ticks, description, tools, op, called, returned, result, earlier, threads>>

\* result = agent.run(current_data), and the loop body after it
RunAgent ==
  /\ workflow # None
  /\ workflow.name = "sequential"
  /\ workflow.pc = "run"
  /\ \E outcome \in Outcomes : workflow' = run_agent(workflow, outcome)
  /\ UNCHANGED <<now, ticks, description, tools, op, called, returned, result, earlier, threads>>

NextSequential == Orchestrate \/ RunAgent

SpecSequential == InitOrchestrator /\ [][NextSequential]_vars


(***************************************************************************)
(* The properties                                                          *)
(***************************************************************************)
Extractors ==
  {"extract_intent_only", "extract_timeframe_only", "extract_metrics_only", "extract_constraints_only"}

Sections == {"intent", "timeframe", "metrics", "constraints"}

\* 0.0 <= c <= 1.0
InUnit(c) == ~FLess(c, Zero) /\ ~FLess(One, c)

ReportInUnit(report) ==
  /\ \A section \in Sections : InUnit(report[section].confidence)
  /\ InUnit(report.overall_confidence)

\* C1: every confidence that a tool returns, every section confidence and
\* the overall_confidence of a report of process_goal_description, and those
\* of the aggregator's fallback report, lie in [0.0, 1.0].
C1_ConfidencesInUnit ==
  /\ op \in Extractors => InUnit(result.confidence)
  /\ op = "process_goal_description" => ReportInUnit(result)
  /\ ReportInUnit(create_fallback_analysis(description, now))

\* a report whose timeframe confidence is the upper end of the interval
C1_ReportAtUpperEnd ==
  /\ op = "process_goal_description"
  /\ result.timeframe.confidence = One
  /\ FLess(Tenths(9), result.intent.confidence)

\* C2: the metrics, the milestones and the recommendations that are returned
\* number at most 5 each.
C2_AtMostFive ==
  /\ op = "extract_metrics_only" => Len(result.metrics) <= 5
  /\ op = "extract_timeframe_only" => Len(result.milestones) <= 5
  /\ op = "process_goal_description" =>
       /\ Len(result.metrics.metrics) <= 5
       /\ Len(result.timeframe.milestones) <= 5
       /\ Len(result.recommendations) <= 5

\* a report of 5 metrics and 5 milestones for a description in which more
\* than 5 numeric metrics and more than 5 milestones are found
C2_MoreThanFiveFound ==
  /\ op = "process_goal_description"
  /\ Len(result.metrics.metrics) = 5
  /\ Len(result.timeframe.milestones) = 5
  /\ Len(NumericMetrics(Lower(description.text))) > 5
  /\ Len(StripAll(FindAllOf(milestone_patterns, 1, Lower(description.text)))) > 5

\* C3: total_count is the length of the constraints list, in the result of
\* the constraints tool and in the constraints section of a report.
C3_TotalCountIsLength ==
  /\ op = "extract_constraints_only" => result.total_count = Len(result.constraints)
  /\ op = "process_goal_description" =>
       result.constraints.total_count = Len(result.constraints.constraints)

\* a result of the constraints tool with several constraints
C3_SeveralConstraints ==
  /\ op = "extract_constraints_only"
  /\ Len(result.constraints) > 1

ReportFields ==
  {"intent", "timeframe", "metrics", "constraints", "overall_confidence", "summary", "recommendations"}

\* C4: process_goal_description returns a report with the fields intent,
\* timeframe, metrics, constraints, overall_confidence, summary and
\* recommendations and an overall_confidence in [0.0, 1.0], for every
\* description and also where a step of it raises.
C4_AlwaysAReport ==
  op = "process_goal_description" =>
    /\ ReportFields \subseteq DOMAIN result
    /\ InUnit(result.overall_confidence)

\* the report for the empty string when the summary step raised
C4_EmptyStringAndRaise ==
  /\ op = "process_goal_description"
  /\ description = Str(<<>>)
  /\ "error" \in DOMAIN result
  /\ ReportFields \subseteq DOMAIN result

\* C5 as stated: the second of two calls of an extractor on the same
\* description returns what the first returned.
C5_SecondCallSame ==
  (op \in Extractors /\ earlier # <<>>) => result = earlier[1].result

\* C5, amended: the second call of the intent, metrics or constraints
\* extractor returns what the first returned; the second call of the
\* timeframe extractor does so when it reads the same clock value, and
\* otherwise, when neither call fell back, it returns the same duration,
\* milestones, flexibility and extractedPhrases.
C5_SameUpToTheClock ==
  (op \in Extractors /\ earlier # <<>>) =>
    /\ op # "extract_timeframe_only" => result = earlier[1].result
    /\ (op = "extract_timeframe_only" /\ called = earlier[1].now) => result = earlier[1].result
    /\ (/\ op = "extract_timeframe_only"
        /\ "error" \notin DOMAIN result
        /\ "error" \notin DOMAIN earlier[1].result) =>
         \A field \in {"duration", "milestones", "flexibility", "extractedPhrases"} :
           result[field] = earlier[1].result[field]

\* two calls of the timeframe extractor at different clock values, neither
\* falling back, with different results
C5_LaterCallDiffers ==
  /\ op = "extract_timeframe_only"
  /\ earlier # <<>>
  /\ called # earlier[1].now
  /\ "error" \notin DOMAIN result
  /\ "error" \notin DOMAIN earlier[1].result
  /\ result # earlier[1].result

\* C6: in a report whose four sections hold a confidence, overall_confidence
\* is the mean of the four: their sum, added in the order intent, timeframe,
\* metrics, constraints, divided by 4.
C6_OverallIsMean ==
  (op = "process_goal_description" /\ \A section \in Sections : "confidence" \in DOMAIN result[section]) =>
    result.overall_confidence =
      FDiv(FSum(<<result.intent.confidence, result.timeframe.confidence,
                  result.metrics.confidence, result.constraints.confidence>>), 4)

\* the total-failure fallback report
C6_FallbackReport ==
  /\ op = "process_goal_description"
  /\ "error" \in DOMAIN result
  /\ result.overall_confidence = Tenths(2)

section_of ==
  [intent_tool |-> "intent", timeframe_tool |-> "timeframe", metrics_tool |-> "metrics",
   constraints_tool |-> "constraints"]

\* the confidence of a section, 0.5 for a section that holds none
ConfidenceOrHalf(section) ==
  IF "confidence" \in DOMAIN section THEN section.confidence ELSE Tenths(5)

\* C7 as stated: with one tool's result lacking a field, the section of that
\* tool is the tool's own fallback, the other sections are what their tools
\* returned, and the report is not the total-failure fallback.
C7_OnlyTheBadSectionReplaced ==
  (op = "process_goal_description" /\ tools # RealTools) =>
    /\ "error" \notin DOMAIN result
    /\ \A tool \in DOMAIN tools :
         result[section_of[tool]] =
           IF tools[tool] = {} THEN returned[tool]
           ELSE IF tool = "intent_tool" THEN intent_fallback
           ELSE IF tool = "timeframe_tool" THEN timeframe_fallback
           ELSE IF tool = "metrics_tool" THEN metrics_fallback
           ELSE constraints_fallback

\* C7, amended: with one tool's result lacking a field, the report is the
\* total-failure fallback (every confidence 0.2, an error field) when the
\* field is the intent's domain or action; otherwise every section, the one
\* lacking the field too, is what its tool returned, and overall_confidence
\* is the mean of the four confidences with 0.5 for a missing one.
C7_AllOrNothing ==
  (op = "process_goal_description" /\ tools # RealTools) =>
    IF tools.intent_tool \in {{"domain"}, {"action"}}
    THEN /\ "error" \in DOMAIN result
         /\ \A section \in Sections : result[section].confidence = Tenths(2)
         /\ result.overall_confidence = Tenths(2)
    ELSE /\ "error" \notin DOMAIN result
         /\ \A tool \in DOMAIN tools : result[section_of[tool]] = returned[tool]
         /\ result.overall_confidence =
              FDiv(FSum(<<ConfidenceOrHalf(result.intent), ConfidenceOrHalf(result.timeframe),
                          ConfidenceOrHalf(result.metrics), ConfidenceOrHalf(result.constraints)>>), 4)

\* a report that is the total-failure fallback because the intent tool's
\* result lacks its domain, for a description that is a str
C7_OneBadToolFailsAll ==
  /\ op = "process_goal_description"
  /\ tools = [RealTools EXCEPT !.intent_tool = {"domain"}]
  /\ description.str
  /\ "error" \in DOMAIN result
  /\ result.timeframe # returned.timeframe_tool

\* C8: a tool called with an argument that is not a str, and the timeframe
\* tool whenever its result has an error field, returns its fixed fallback.
C8_FixedFallbacks ==
  /\ (op = "extract_intent_only" /\ ~description.str) =>
       /\ result.domain = "projects"
       /\ result.action = <<"a", "c", "h", "i", "e", "v", "e">>
       /\ result.outcome = <<"g", "o", "a", "l", " ", "c", "o", "m", "p", "l", "e", "t", "i", "o", "n">>
       /\ result.urgency = "medium"
       /\ result.confidence = Tenths(3)
  /\ (op = "extract_timeframe_only" /\ (~description.str \/ "error" \in DOMAIN result)) =>
       /\ result.duration = [days |-> 30]
       /\ result.flexibility = "flexible"
       /\ result.confidence = Tenths(2)
       /\ "error" \in DOMAIN result
  /\ (op = "extract_metrics_only" /\ ~description.str) =>
       /\ Len(result.metrics) = 1
       /\ result.metrics[1].name = "completion_status"
       /\ result.metrics[1].targetValue = FromInt(100)
       /\ result.metrics[1].unit = <<"p", "e", "r", "c", "e", "n", "t">>
       /\ result.confidence = Tenths(2)
  /\ (op = "extract_constraints_only" /\ ~description.str) =>
       /\ result.constraints = <<>>
       /\ result.total_count = 0
       /\ result.confidence = Tenths(2)

\* the timeframe tool falling back on a description that is a str
C8_TimeframeFallsBack ==
  /\ op = "extract_timeframe_only"
  /\ description.str
  /\ "error" \in DOMAIN result
  /\ result.duration = [days |-> 30]

\* the descriptions with at least 10 words, a numeric metric and a date
Qualifying ==
  {d \in Inputs :
     /\ d.str
     /\ Len(Split(d.text)) >= 10
     /\ NumericMetrics(Lower(d.text)) # <<>>
     /\ ParsedDates(Lower(d.text), StartClock.year) # <<>>}

do_stuff == Str(<<"d", "o", " ", "s", "t", "u", "f", "f">>)

Extractions ==
  [domain : {"projects", "fitness"},
   action : {<<"a", "c", "h", "i", "e", "v", "e">>, <<"r", "u", "n">>},
   outcome : {<<>>, <<"g", "o", "a", "l", " ", "c", "o", "m", "p", "l", "e", "t", "i", "o", "n">>}]

\* the confidence of such a description is greater than that of "do stuff"
\* whichever domain, action and outcome are extracted from it
WhateverIsExtracted ==
  \A d \in Qualifying : \A e \in Extractions :
    FLess(intent_run(do_stuff).confidence, calculate_confidence(d.text, e.domain, e.action, e.outcome))

\* C9: the intent confidence of a description with at least 10 words, a
\* numeric metric and a date is greater than that of "do stuff".
C9_AboveDoStuff ==
  (op = "extract_intent_only" /\ description \in Qualifying) =>
    /\ FLess(intent_run(do_stuff).confidence, result.confidence)
    /\ WhateverIsExtracted

\* the intent of such a description that contains a vague word
C9_QualifyingAndVague ==
  /\ op = "extract_intent_only"
  /\ description \in Qualifying
  /\ AnyIn(vague_words, Lower(description.text))

\* the number of keywords of the k-th domain that occur in the lower-cased description
Score(k) == KeywordScore(Lower(description.text), domain_patterns[domain_order[k]])

\* C10: the domain is the first domain of the table among those with the
\* largest number of keywords occurring in the lower-cased description, and
\* 'projects' when no keyword of any domain occurs.
C10_FirstOfTheBest ==
  (op = "extract_intent_only" /\ description.str) =>
    \/ /\ result.domain = "projects"
       /\ \A j \in 1..Len(domain_order) : Score(j) = 0
    \/ \E k \in 1..Len(domain_order) :
         /\ result.domain = domain_order[k]
         /\ Score(k) > 0
         /\ \A j \in 1..Len(domain_order) : Score(j) <= Score(k)
         /\ \A j \in 1..(k - 1) : Score(j) < Score(k)

\* a description for which fitness and habits share the largest number of
\* keywords, classified as fitness
C10_TieGoesToFirst ==
  /\ op = "extract_intent_only"
  /\ description.str
  /\ result.domain = "fitness"
  /\ Score(1) > 0
  /\ Score(8) = Score(1)
  /\ \A j \in 1..Len(domain_order) : Score(j) <= Score(1)

\* word stands at position i of the text as a whole word
WholeWordAt(text, word, i) ==
  /\ StartsAt(text, word, i)
  /\ ~IsWordAt(text, i - 1)
  /\ ~IsWordAt(text, i + Len(word))

\* the eight verb families in the order of their priority
action_families ==
  <<
    <<"learn", "study", "master", "understand">>,
    <<"run", "exercise", "train", "workout">>,
    <<"save", "earn", "invest", "budget">>,
    <<"build", "create", "develop", "make">>,
    <<"lose", "gain", "improve", "increase", "decrease">>,
    <<"complete", "finish", "achieve", "accomplish">>,
    <<"start", "begin", "initiate">>,
    <<"read", "write", "practice">>
  >>

\* the positions of the text at which a verb of the k-th family stands
FamilyAt(text, k) ==
  {i \in 1..Len(text) :
     \E v \in 1..Len(action_families[k]) : WholeWordAt(text, Spell[action_families[k][v]], i)}

\* a word that the fallback of the action takes: no filler word, longer
\* than 3 characters, ending in 'ing', 'ed' or 'er'
TakenAsVerb(word) ==
  /\ Len(word) > 3
  /\ Lower(word) \notin {Spell["want"], Spell["need"], Spell["plan"], Spell["hope"], Spell["aim"], Spell["goal"]}
  /\ \/ EndsWith(Lower(word), <<"i", "n", "g">>)
     \/ EndsWith(Lower(word), <<"e", "d">>)
     \/ EndsWith(Lower(word), <<"e", "r">>)

\* C11: the action is the verb of the first family, in priority order, that
\* has a verb standing anywhere in the lowered description, namely the
\* leftmost verb of that family; when no family has one it is the first word
\* that is no filler word, is longer than 3 characters and ends in 'ing',
\* 'ed' or 'er', lowered; and otherwise it is 'achieve'.
C11_ActionByFamilyPriority ==
  (op = "extract_intent_only" /\ description.str) =>
    LET text == Lower(description.text)
        words == Split(description.text)
        matched == {k \in 1..Len(action_families) : FamilyAt(text, k) # {}}
        taken == {k \in 1..Len(words) : TakenAsVerb(words[k])}
    IN IF matched # {}
       THEN /\ StartsAt(text, result.action, Min(FamilyAt(text, Min(matched))))
            /\ \E v \in 1..Len(action_families[Min(matched)]) :
                 result.action = Spell[action_families[Min(matched)][v]]
       ELSE IF taken # {} THEN result.action = Lower(words[Min(taken)])
       ELSE result.action = <<"a", "c", "h", "i", "e", "v", "e">>

\* a verb of the change family stands before a verb of the exercise family
\* and the action is the verb of the exercise family
C11_LaterVerbOfEarlierFamily ==
  /\ op = "extract_intent_only"
  /\ description.str
  /\ result.action = <<"r", "u", "n">>
  /\ FamilyAt(Lower(description.text), 5) # {}
  /\ Min(FamilyAt(Lower(description.text), 5)) < Min(FamilyAt(Lower(description.text), 2))


\* the position after the run of characters of a class that begins at i
AfterRun(text, i, class) ==
  Min({j \in i..(Len(text) + 1) : j > Len(text) \/ text[j] \notin class})

\* the positions at which a number begins that stands before the unit word,
\* white space or nothing between them
NumbersBefore(text, unit) ==
  {i \in 1..Len(text) :
     /\ text[i] \in Digit
     /\ i = 1 \/ text[i - 1] \notin Digit
     /\ StartsAt(text, unit, AfterRun(text, AfterRun(text, i, Digit), WhiteSpace))}

\* the first number found for the unit, 0 when there is none
FirstCount(text, unit) ==
  IF NumbersBefore(text, unit) = {} THEN 0
  ELSE SubSeq(text, Min(NumbersBefore(text, unit)),
              AfterRun(text, Min(NumbersBefore(text, unit)), Digit) - 1)

\* days + weeks*7 + months*30 + years*365 + hours/24 of the first numbers,
\* in 24ths of a day
DurationIn24ths(text) ==
  LET count(unit) == IF NumbersBefore(text, unit) = {} THEN 0 ELSE ToInt(FirstCount(text, unit))
  IN 24 * count(<<"d", "a", "y">>) + 24 * 7 * count(<<"w", "e", "e", "k">>)
     + 24 * 30 * count(<<"m", "o", "n", "t", "h">>) + 24 * 365 * count(<<"y", "e", "a", "r">>)
     + count(<<"h", "o", "u", "r">>)

\* C12: the duration that the timeframe parser returns is empty or maps the
\* single key 'days' to the integer truncation of days + weeks*7 + months*30
\* + years*365 + hours/24, each count being the first number found for its
\* unit; it is not empty when the sum reaches a day, and the description
\* '3 weeks' gives {days: 21}.
C12_DurationInDays ==
  (op = "extract_timeframe_only" /\ description.str /\ "error" \notin DOMAIN result) =>
    LET total_24ths == DurationIn24ths(Lower(description.text))
    IN /\ result.duration \in {EmptyDict, [days |-> total_24ths \div 24]}
       /\ total_24ths >= 24 => result.duration # EmptyDict
       /\ description.text = <<"3", " ", "w", "e", "e", "k", "s">> => result.duration = [days |-> 21]

\* hours that are no whole days are added to weeks: 30 hours and 3 weeks
\* are 22 days
C12_HoursAndWeeks ==
  /\ op = "extract_timeframe_only"
  /\ NumbersBefore(Lower(description.text), <<"h", "o", "u", "r">>) # {}
  /\ NumbersBefore(Lower(description.text), <<"w", "e", "e", "k">>) # {}
  /\ "error" \notin DOMAIN result
  /\ result.duration = [days |-> 22]


\* C13: a duration that the timeframe parser returns and that is not empty
\* has a 'days' value strictly greater than 0; durations that normalize to
\* less than one whole day yield the empty duration, never {days: 0}.
C13_NeverZeroDays ==
  (op = "extract_timeframe_only" /\ result.duration # EmptyDict) =>
    /\ DOMAIN result.duration = {"days"}
    /\ result.duration.days \in Nat
    /\ result.duration.days > 0

\* the description '4 hours' has the duration {days: 0}
C13_FourHoursAreZeroDays ==
  /\ op = "extract_timeframe_only"
  /\ description = Str(<<"4", " ", "h", "o", "u", "r", "s">>)
  /\ result.duration = [days |-> 0]


\* the text contains one of the keywords
HasKeyword(text, keywords) == \E word \in keywords : Contains(text, Spell[word])

very_flexible_keywords == {"eventually", "someday", "whenever", "no rush", "no hurry"}
flexible_keywords == {"around", "approximately", "roughly", "about", "flexible", "when possible"}
fixed_keywords == {"deadline", "must", "required", "due", "exactly", "precisely"}

\* C14: the flexibility is 'very_flexible' when the lowered description
\* contains a very-flexible keyword, whatever else it contains; otherwise
\* 'flexible' when it contains a flexible keyword; otherwise 'fixed' when it
\* contains a fixed keyword; and 'flexible' when it contains no keyword.
C14_FlexibilityByClass ==
  (op = "extract_timeframe_only" /\ description.str /\ "error" \notin DOMAIN result) =>
    LET text == Lower(description.text)
    IN result.flexibility =
         IF HasKeyword(text, very_flexible_keywords) THEN "very_flexible"
         ELSE IF HasKeyword(text, flexible_keywords) THEN "flexible"
         ELSE IF HasKeyword(text, fixed_keywords) THEN "fixed"
         ELSE "flexible"

\* a fixed keyword stands before a very-flexible keyword and the flexibility
\* is 'very_flexible'
C14_VeryFlexibleAndFixed ==
  /\ op = "extract_timeframe_only"
  /\ description = Str(Spell["must"] \o <<" ">> \o Spell["eventually"])
  /\ result.flexibility = "very_flexible"


\* the record that the claim describes for a match of the k-th pattern: the
\* whole numeric literal as the target, the matched unit word or, for the
\* pattern without a unit group, the default unit
ExplicitRecord(k, text, m) ==
  [name |-> TargetName(numeric_types[k]),
   unit |-> IF numeric_regexes[k].groups > 1 THEN Group(text, m, 2) ELSE Spell[numeric_units[k]],
   targetValue |-> ToFloat(Group(text, m, 1)),
   currentValue |-> 0,
   confidence |-> "high"]

\* the records of all matches, pattern by pattern and in text order
ExplicitRecords(text) ==
  JoinWith(<<>>,
    List([k \in 1..Len(numeric_regexes) |->
            With(FindAll(numeric_regexes[k], text), LAMBDA ms :
              List([j \in 1..Len(ms) |-> ExplicitRecord(k, text, ms[j])]))]))

\* a record of an explicit numeric metric
IsExplicit(metric) == metric.confidence = "high"

\* C15: for every match of each of the nine numeric patterns the emitted
\* record is named '<type>_target', has currentValue 0 and confidence
\* 'high', its targetValue is the whole numeric literal matched ('50
\* percent' gives 50.0) and its unit is the matched unit word or the
\* pattern's default unit.
C15_WholeLiteralIsTarget ==
  (op = "extract_metrics_only" /\ description.str) =>
    SelectSeq(result.metrics, IsExplicit)
      = Take(ExplicitRecords(Lower(description.text)), MetricLimit)

\* '50 percent' gives a percentage target of 5.0 with the unit '0'
C15_FiftyPercentIsFive ==
  /\ op = "extract_metrics_only"
  /\ description = Str(<<"5", "0", " ", "p", "e", "r", "c", "e", "n", "t">>)
  /\ Len(result.metrics) = 1
  /\ result.metrics[1].name = "percentage_target"
  /\ result.metrics[1].targetValue = FromInt(5)
  /\ result.metrics[1].unit = <<"0">>


\* what an operation returns when it is called alone on a description, its
\* timeframe tool reading the clock at read and its time stamp at at
Alone(o, d, read, at) ==
  IF o = "process_goal_description"
  THEN combine(d, at, intent_tool_run(RealTools, d), timeframe_tool_run(RealTools, d, read),
               metrics_tool_run(RealTools, d), constraints_tool_run(RealTools, d))
  ELSE tool_run(RealTools, tool_of[o], d, read)

\* the thread's call returns in this step what it would return alone
ReturnsAsIfAlone(t) ==
  (threads[t].pc # "done" /\ threads'[t].pc = "done") =>
    threads'[t].result.value
      = Alone(threads'[t].op, threads'[t].description, threads'[t].read, threads'[t].result.at)

\* a local variable of the thread's frame that this step assigns holds the
\* tool's result for the thread's own description
AssignsItsOwn(t) ==
  \A tool \in DOMAIN threads'[t].locals :
    (tool \notin DOMAIN threads[t].locals \/ threads'[t].locals[tool] # threads[t].locals[tool]) =>
      threads'[t].locals[tool] = tool_run(RealTools, tool, threads'[t].description, now)

\* C16: when several calls run at once on one agent and its four tools, in
\* any interleaving, each call returns what it would return if it ran alone
\* on its own description at the clock readings it saw; no step changes
\* the tool attributes that the calls share, and a step assigns only local
\* variables of its own call.
C16_AsIfAlone ==
  [][/\ tools' = tools
     /\ \A t \in DOMAIN threads : ReturnsAsIfAlone(t) /\ AssignsItsOwn(t)]_vars

\* a call of process_goal_description has returned while another, on another
\* description, whose timeframe tool ran at an earlier clock reading, has
\* not yet run its last two tools
C16_CallsOverlap ==
  /\ threads # <<>>
  /\ threads[1].op = "process_goal_description"
  /\ threads[1].pc = "metrics_tool"
  /\ threads[2].op = "process_goal_description"
  /\ threads[2].pc = "done"
  /\ threads[1].description # threads[2].description
  /\ threads[1].description.str
  /\ threads[2].description.str
  /\ threads[1].read = StartClock
  /\ threads[2].read # StartClock


high_urgency_keywords ==
  {"urgent", "asap", "immediately", "critical", "emergency", "deadline", "must"}
medium_urgency_keywords ==
  {"soon", "quickly", "important", "priority", "need to", "should"}
low_urgency_keywords ==
  {"eventually", "someday", "when possible", "would like", "hope to"}

high_urgency_cues ==
  {"today", "tomorrow", "this week", "next week"}
medium_urgency_cues ==
  {"this month", "next month"}
low_urgency_cues ==
  {"this year", "next year"}

\* one of the date cues stands in the text as whole words
HasCue(text, cues) ==
  \E cue \in cues : \E i \in 1..Len(text) : WholeWordAt(text, Spell[cue], i)

\* C17: the urgency is 'high' when the lowered description contains a
\* high-urgency keyword, otherwise 'medium' when it contains a medium-urgency
\* keyword, otherwise 'low' when it contains a low-urgency keyword; only when
\* it contains no keyword do the date cues decide (today, tomorrow, this
\* week, next week: 'high'; this month, next month: 'medium'; this year, next
\* year: 'low'); otherwise it is 'medium'.
C17_KeywordsBeforeCues ==
  (op = "extract_intent_only" /\ description.str) =>
    LET text == Lower(description.text)
    IN result.urgency =
         IF HasKeyword(text, high_urgency_keywords) THEN "high"
         ELSE IF HasKeyword(text, medium_urgency_keywords) THEN "medium"
         ELSE IF HasKeyword(text, low_urgency_keywords) THEN "low"
         ELSE IF HasCue(text, high_urgency_cues) THEN "high"
         ELSE IF HasCue(text, medium_urgency_cues) THEN "medium"
         ELSE IF HasCue(text, low_urgency_cues) THEN "low"
         ELSE "medium"

\* a medium-urgency keyword and the word 'today': the urgency is 'medium'
C17_SoonToday ==
  /\ op = "extract_intent_only"
  /\ description = Str(Spell["soon"] \o <<" ">> \o Spell["today"])
  /\ result.urgency = "medium"


vague_keywords == {"something", "stuff", "things", "whatever"}

\* c + x where the condition holds, c otherwise
Plus(c, condition, x) == IF condition THEN FAdd(c, x) ELSE c

\* c - x where the condition holds, c otherwise
Minus(c, condition, x) == IF condition THEN FSub(c, x) ELSE c

\* the confidence of the claim: 0.5 and the seven terms in their order,
\* clamped to [0, 1]
ClaimedConfidence(word_count, action_found, long_outcome, domain_found, vague) ==
  FMax(Zero, FMin(One,
    Minus(Minus(Plus(Plus(Plus(Plus(Plus(Tenths(5),
      word_count >= 5, Tenths(1)),
      word_count >= 10, Tenths(1)),
      action_found, Tenths(1)),
      long_outcome, Tenths(1)),
      domain_found, Tenths(1)),
      word_count < 3, Tenths(2)),
      vague, Tenths(3))))

\* C18: the intent confidence is the clamp to [0, 1] of 0.5, plus 0.1 for at
\* least 5 words, plus 0.1 for at least 10, plus 0.1 for an action other
\* than 'achieve', plus 0.1 for an outcome longer than 10 characters, plus
\* 0.1 for a domain other than 'projects', minus 0.2 for fewer than 3 words,
\* minus 0.3 for a vague word.  With a vague word it is at most 0.7 and with
\* fewer than 3 words at most 0.6, whatever is extracted.
C18_ConfidenceFormula ==
  (op = "extract_intent_only" /\ description.str) =>
    LET word_count == Len(Split(description.text))
        vague == HasKeyword(Lower(description.text), vague_keywords)
    IN /\ result.confidence =
            ClaimedConfidence(word_count, result.action # <<"a", "c", "h", "i", "e", "v", "e">>,
                              Len(result.outcome) > 10, result.domain # "projects", vague)
       /\ vague =>
            /\ ~FLess(Tenths(7), result.confidence)
            /\ \A a, o, d \in BOOLEAN :
                 ~FLess(Tenths(7), ClaimedConfidence(word_count, a, o, d, TRUE))
       /\ word_count < 3 =>
            /\ ~FLess(Tenths(6), result.confidence)
            /\ \A a, o, d \in BOOLEAN :
                 ~FLess(Tenths(6), ClaimedConfidence(word_count, a, o, d, vague))

\* 'lose stuff' has an action, fewer than 3 words and a vague word: its
\* confidence lies strictly between 0.0 and 0.2
C18_ShortAndVague ==
  /\ op = "extract_intent_only"
  /\ description = Str(Spell["lose"] \o <<" ">> \o Spell["stuff"])
  /\ result.action = Spell["lose"]
  /\ FLess(Zero, result.confidence)
  /\ FLess(result.confidence, Tenths(2))


\* the dates of the literals of the k-th format that parse, in text order
ParsedOfFormat(k, text, current_year) ==
  With(findall(date_patterns[k], text), LAMBDA literals :
    JoinWith(<<>>, List([j \in 1..Len(literals) |->
                           parse_date_match(date_patterns[k].groups, literals[j], current_year)])))

\* the description is made of the two phrases, a space between them
IsPair(first, second) == description = Str(Spell[first] \o <<" ">> \o Spell[second])

\* C19: when date literals of the description parse, the end date is the
\* last parsed literal of the last format that has one, the formats taken
\* in the order MM/DD/YYYY, MM-DD-YYYY, month name and the literals of a
\* format in text order: a month-name date overrides a numeric date wherever
\* it stands, and a literal that does not parse leaves the end date as it
\* was.
C19_LastParsedWins ==
  (op = "extract_timeframe_only" /\ description.str /\ "error" \notin DOMAIN result) =>
    LET text == Lower(description.text)
        parsed == List([k \in 1..3 |-> ParsedOfFormat(k, text, called.year)])
        formats == {k \in 1..3 : parsed[k] # <<>>}
    IN /\ formats # {} =>
            result.endDate = <<isoformat(parsed[Max(formats)][Len(parsed[Max(formats)])])>>
       /\ IsPair("3/15/2025", "4/1/26") => result.endDate = <<<<2026, 4, 1, 0>>>>
       /\ IsPair("4/1/26", "3/15/2025") => result.endDate = <<<<2025, 3, 15, 0>>>>
       /\ IsPair("12-31-2025", "3/15/2025") => result.endDate = <<<<2025, 12, 31, 0>>>>
       /\ IsPair("3/15/2025", "13/45/2025") => result.endDate = <<<<2025, 3, 15, 0>>>>

\* a month-name date stands before a numeric date and is the end date
C19_MonthNameOverrides ==
  /\ op = "extract_timeframe_only"
  /\ description = Str(Spell["march"] \o <<" ">> \o Spell["3rd"] \o <<" ">> \o Spell["3/15/2025"])
  /\ result.endDate = <<<<called.year, 3, 3, 0>>>>


\* the phrases of the relative-date table in its order
relative_phrases ==
  <<"today", "tomorrow", "next week", "this week", "next month", "this month", "next year",
    "this year">>

\* the date that the k-th phrase of the table stands for at a clock reading
RelativeDate(k, clock) ==
  CASE k = 1 -> clock
    [] k = 2 -> PlusDays(clock, 1)
    [] k = 3 -> PlusDays(clock, 7)
    [] k = 4 -> PlusDays(clock, 7 - Weekday(clock))
    [] k = 5 -> PlusDays(clock, 30)
    [] k = 6 -> [clock EXCEPT !.day = 28]
    [] k = 7 -> [clock EXCEPT !.year = @ + 1]
    [] k = 8 -> [clock EXCEPT !.month = 12, !.day = 31]

\* the date of the first "in N days", else "in N weeks", else "in N months"
\* expression of the text: N, N*7 or N*30 days after the clock reading
InDate(text, clock) ==
  LET unit == Min({k \in 1..3 : Search(in_regexes[k], text) # <<>>})
      n == ToInt(Group(text, Search(in_regexes[unit], text)[1], 1))
  IN PlusDays(clock, n * <<1, 7, 30>>[unit])

\* C20: a date literal that parses is the end date and the relative
\* expressions are not consulted; when none parses, the end date is the date
\* of the first phrase of the table, in table order, that occurs in the
\* description; when no phrase of the table occurs, it is N, N*7 or N*30 days
\* after now for an "in N days", "in N weeks" or "in N months" expression;
\* and when nothing matches there is no end date.
C20_RelativeAfterExplicit ==
  (op = "extract_timeframe_only" /\ description.str /\ "error" \notin DOMAIN result) =>
    LET text == Lower(description.text)
        explicit == JoinWith(<<>>, List([k \in 1..3 |-> ParsedOfFormat(k, text, called.year)]))
        occurring == {k \in 1..8 : HasCue(text, {relative_phrases[k]})}
    IN IF explicit # <<>>
       THEN \E j \in 1..Len(explicit) : result.endDate = <<isoformat(explicit[j])>>
       ELSE IF occurring # {}
       THEN result.endDate = <<isoformat(RelativeDate(Min(occurring), called))>>
       ELSE IF \E k \in 1..3 : Search(in_regexes[k], text) # <<>>
       THEN result.endDate = <<isoformat(InDate(text, called))>>
       ELSE result.endDate = <<>>

\* 'next week' stands before 'today' and the end date is the clock reading
C20_TodayBeforeNextWeek ==
  /\ op = "extract_timeframe_only"
  /\ description = Str(Spell["next week"] \o <<" ">> \o Spell["today"])
  /\ "error" \notin DOMAIN result
  /\ result.endDate = <<isoformat(called)>>


\* the category values of the claim
category_values == [high |-> Tenths(9), medium |-> Tenths(6), low |-> Tenths(3)]

\* the arithmetic mean of the category values of a list of metrics
MeanOfCategories(metrics) ==
  FDiv(FSum(List([k \in 1..Len(metrics) |-> category_values[metrics[k].confidence]])),
       Len(metrics))

\* C21: the confidence the metrics identifier reports is the arithmetic mean
\* of the category values of exactly the metrics in the returned list (the
\* list after truncation to 5); metrics that were cut off do not influence it.
C21_MeanOfReturned ==
  (op = "extract_metrics_only" /\ description.str) =>
    result.confidence = MeanOfCategories(result.metrics)

\* five explicit metrics are returned, the implicit sixth is cut off, and the
\* reported confidence is below the 0.9 that the five returned ones average
C21_CutOffMetricCounts ==
  /\ op = "extract_metrics_only"
  /\ description = Str(Spell["1kg 2km 3hrs 4min 5% gym"])
  /\ Len(result.metrics) = MetricLimit
  /\ \A k \in 1..MetricLimit : result.metrics[k].confidence = "high"
  /\ MeanOfCategories(result.metrics) = Tenths(9)
  /\ FLess(result.confidence, Tenths(9))


\* the words that fire an implicit metric
implicit_triggers ==
  {"workout", "exercise", "fitness", "gym", "working", "shape",
   "learn", "study", "course", "skill",
   "read", "book", "chapter",
   "daily", "habit", "routine", "every day",
   "project", "build", "create", "complete"}

\* the default metric of the claim
progress_score ==
  [name |-> "progress_score", unit |-> Spell["points"], targetValue |-> FromInt(100),
   currentValue |-> 0, confidence |-> "low"]

\* the description has no numeric value with a unit and no trigger word
NothingMeasurable(text) ==
  /\ ExplicitRecords(Lower(text)) = <<>>
  /\ ~HasKeyword(Lower(text), implicit_triggers)

\* C22: the default progress_score metric (target 100, unit points,
\* confidence 'low') is returned exactly when the description has no explicit
\* numeric metric and fires no implicit trigger, and then it is the only
\* metric; so the list is never empty when the run does not fall back, and the
\* confidence is 0.3 exactly in that case and at least 0.6 otherwise.
C22_DefaultIffNothingFound ==
  (op = "extract_metrics_only" /\ description.str) =>
    /\ result.metrics # <<>>
    /\ (\E k \in 1..Len(result.metrics) : result.metrics[k].name = "progress_score")
         <=> NothingMeasurable(description.text)
    /\ IF NothingMeasurable(description.text)
       THEN result.metrics = <<progress_score>> /\ result.confidence = Tenths(3)
       ELSE ~FLess(result.confidence, Tenths(6))

\* 'lose' has neither a number nor a trigger word
C22_OnlyTheDefault ==
  /\ op = "extract_metrics_only"
  /\ description = Str(Spell["lose"])
  /\ Len(result.metrics) = 1
  /\ result.metrics[1].name = "progress_score"
  /\ result.confidence = Tenths(3)


high_severity_keywords == {"impossible", "never", "can't", "unable", "critical", "major"}
medium_severity_keywords == {"difficult", "challenging", "limited", "restricted", "problem"}

\* the severity that the claim gives to a constraint text
SeverityOfText(text) ==
  IF HasKeyword(text, high_severity_keywords) THEN "high"
  ELSE IF HasKeyword(text, medium_severity_keywords) THEN "medium"
  ELSE "low"

\* C23: the severity of each constraint record depends only on the
\* constraint's own text: 'high' if it contains a high-severity word (even
\* when it also contains a medium-severity word), otherwise 'medium' if it
\* contains a medium-severity word, otherwise 'low'; words elsewhere in the
\* description do not affect it.
C23_SeverityOfOwnText ==
  (op = "extract_constraints_only" /\ description.str) =>
    \A k \in 1..Len(result.constraints) :
      result.constraints[k].severity = SeverityOfText(result.constraints[k].constraint)

\* 'a gym' is low although the description has "can't" and 'major', and
\* 'with a major problem' is high although it has 'problem'
C23_LowBesideHigh ==
  /\ op = "extract_constraints_only"
  /\ description = Str(Spell["can't afford a gym. busy with a major problem."])
  /\ \E k \in 1..Len(result.constraints) :
       /\ result.constraints[k].constraint = Spell["a gym"]
       /\ result.constraints[k].severity = "low"
  /\ \E k \in 1..Len(result.constraints) :
       /\ result.constraints[k].constraint = Spell["with a major problem"]
       /\ result.constraints[k].severity = "high"

\* the confidence that the claim gives for a number of constraints
ClaimedConstraintConfidence(count) ==
  IF count = 0 THEN Tenths(3)
  ELSE FMin(One, FAdd(Tenths(5), FMin(Tenths(4), FMul(Tenths(1), count))))

\* the largest number of constraints the formula is evaluated for
MaxCount == 8

\* C24: the constraint confidence is 0.3 when no constraint is found and
\* min(1.0, 0.5 + min(0.4, 0.1 * count)) otherwise; it does not decrease with
\* the count, is 0.6, 0.7, 0.8 for 1, 2, 3 constraints and 0.9 for 4 or more.
C24_ConfidenceByCount ==
  (op = "extract_constraints_only" /\ description.str) =>
    LET count == Len(result.constraints)
    IN /\ result.confidence = ClaimedConstraintConfidence(count)
       /\ result.confidence = Tenths(CASE count = 0 -> 3 [] count = 1 -> 6 [] count = 2 -> 7
                                       [] count = 3 -> 8 [] OTHER -> 9)
       /\ \A n \in 0..MaxCount :
            ~FLess(ClaimedConstraintConfidence(n + 1), ClaimedConstraintConfidence(n))

\* five constraints are found and the confidence is 0.9
C24_FiveConstraints ==
  /\ op = "extract_constraints_only"
  /\ Len(result.constraints) = 5
  /\ result.confidence = Tenths(9)


\* the suggestions of the claim
more_specific_details == "Consider providing more specific details about what you want to achieve"
add_deadlines == "Add specific deadlines or timeframes to make the goal more time-bound"
measurable_outcomes == "Include measurable outcomes or success criteria"
potential_obstacles == "Consider potential obstacles or constraints that might affect your goal"
domain_suggestion ==
  [fitness |-> "Consider tracking specific metrics like workout frequency or performance improvements",
   learning |-> "Break down the learning goal into specific skills or knowledge areas",
   career |-> "Define specific career milestones or skill developments"]

\* the suggestion, if its condition holds
Suggest(condition, suggestion) == IF condition THEN <<suggestion>> ELSE <<>>

\* the suggestions whose conditions hold for a report, in the claim's order
Suggested(report) ==
  Suggest(FLess(report.intent.confidence, Tenths(6)), more_specific_details)
  \o Suggest(FLess(report.timeframe.confidence, Tenths(6)), add_deadlines)
  \o Suggest(FLess(report.metrics.confidence, Tenths(6)), measurable_outcomes)
  \o Suggest(report.constraints.total_count = 0, potential_obstacles)
  \o Suggest(report.intent.domain \in DOMAIN domain_suggestion,
             domain_suggestion[IF report.intent.domain \in DOMAIN domain_suggestion
                               THEN report.intent.domain ELSE "fitness"])

\* C25: the recommendations are, in this order, the 'more specific details'
\* suggestion iff the intent confidence is below 0.6, 'add deadlines' iff the
\* timeframe confidence is below 0.6, 'measurable outcomes' iff the metrics
\* confidence is below 0.6, 'potential obstacles' iff total_count is 0, and
\* one domain suggestion iff the domain is fitness, learning or career; the
\* cap of 5 never removes a suggestion whose condition holds.
C25_RecommendationsByCondition ==
  (op = "process_goal_description" /\ "error" \notin DOMAIN result) =>
    /\ result.recommendations = Suggested(result)
    /\ Len(Suggested(result)) <= RecommendationLimit

\* all five suggestions at once, the intent confidence being just below 0.6
C25_AllFive ==
  /\ op = "process_goal_description"
  /\ description = Str(Spell["lose weight"])
  /\ FLess(result.intent.confidence, Tenths(6))
  /\ Len(result.recommendations) = 5
  /\ result.recommendations[5] = domain_suggestion.fitness


\* startDate is set exactly when endDate is, and then it is the clock reading
\* of the call
DatesTogether ==
  /\ (result.startDate # <<>>) <=> (result.endDate # <<>>)
  /\ result.endDate # <<>> => result.startDate = <<isoformat(called)>>

\* 0.3 + 0.2 + 0.2 + 0.2 summed in this order in binary64: 0.8999999999999999
JustBelowNineTenths == FAdd(FAdd(FAdd(Tenths(3), Tenths(2)), Tenths(2)), Tenths(2))

\* C26 (as stated): in every timeframe result startDate is set iff endDate is
\* set, the start date being the current time; the confidence is one of 0.3,
\* 0.5, 0.6, 0.7, 0.9, 1.0, or 0.2 on error.
C26_ListedConfidences ==
  op = "extract_timeframe_only" =>
    /\ DatesTogether
    /\ IF "error" \in DOMAIN result THEN result.confidence = Tenths(2)
       ELSE result.confidence
              \in {Tenths(3), Tenths(5), Tenths(6), Tenths(7), Tenths(9), One}

\* C26 (amended): in every timeframe result startDate is set iff endDate is
\* set, the start date being the current time; the confidence is 0.2 on error
\* and otherwise 0.3, 0.5 or 0.6 without dates and 0.7, 0.8999999999999999
\* (one phrase and both date bonuses) or 1.0 with dates.
C26_DatesTogether ==
  op = "extract_timeframe_only" =>
    /\ DatesTogether
    /\ IF "error" \in DOMAIN result THEN result.confidence = Tenths(2)
       ELSE IF result.endDate = <<>>
       THEN result.confidence \in {Tenths(3), Tenths(5), Tenths(6)}
       ELSE result.confidence \in {Tenths(7), JustBelowNineTenths, One}

\* 'Tomorrow' is one phrase and gives both dates: the confidence is the
\* binary64 sum, which is below 0.9
C26_OnePhraseAndDates ==
  /\ op = "extract_timeframe_only"
  /\ description = Str(<<"T">> \o Spell["omorrow"])
  /\ Len(result.extractedPhrases) = 1
  /\ result.startDate = <<isoformat(called)>>
  /\ result.endDate = <<isoformat(PlusDays(called, 1))>>
  /\ result.confidence = JustBelowNineTenths
  /\ FLess(result.confidence, Tenths(9))


\* no date pattern has a match in the text
NoDateLiteral(text) ==
  \A k \in 1..Len(date_patterns) : findall(date_patterns[k], text) = <<>>

\* C27: at every current calendar date, 29 February of a leap year included,
\* the timeframe parser applied to a description without an explicit date
\* literal takes the normal path: the result has no 'error' field, its
\* confidence is not the error value 0.2, and its duration is the one
\* extracted from the description.
C27_NormalPathOnAnyDate ==
  (op = "extract_timeframe_only" /\ description.str /\ NoDateLiteral(Lower(description.text))) =>
    /\ "error" \notin DOMAIN result
    /\ result.confidence # Tenths(2)
    /\ result.duration
         \in {EmptyDict, [days |-> DurationIn24ths(Lower(description.text)) \div 24]}

\* on 29 February 2024 the description '3 weeks' gets the fallback: an error
\* field, confidence 0.2 and 30 days for the 21 that it names
C27_LeapDayFallsBack ==
  /\ op = "extract_timeframe_only"
  /\ called = DateTime(2024, 2, 29, 0)
  /\ description = Str(Spell["3 weeks"])
  /\ "error" \in DOMAIN result
  /\ result.confidence = Tenths(2)
  /\ result.duration = [days |-> 30]
  /\ result.extractedPhrases = <<>>


\* the fields that the summary and recommendation steps read by index
ReadByIndex == {"domain", "action"}

\* C28: the aggregator's total-failure fallback report (the one with the
\* 'error' field, overall_confidence 0.2 and the 'Retry analysis'
\* recommendation) is not reachable through process_goal_description: each
\* extractor returns its normal result or its own complete fallback, so the
\* summary and recommendation steps find the fields they read, for every
\* input, the empty string and input that is not a string included.
C28_NoTotalFailure ==
  op = "process_goal_description" =>
    /\ "error" \notin DOMAIN result
    /\ ReadByIndex \subseteq DOMAIN returned.intent_tool
    /\ \A tool \in DOMAIN returned : "confidence" \in DOMAIN returned[tool]
    /\ result # create_fallback_analysis(description, called)
    /\ \A k \in 1..Len(result.recommendations) :
         result.recommendations[k] # "Retry analysis with simplified description"

\* for an argument that is not a str all four tools fall back, and the report
\* is still put together from their fallbacks
C28_FourFallbacksMerged ==
  /\ op = "process_goal_description"
  /\ description = NotAStr
  /\ "error" \notin DOMAIN result
  /\ "error" \in DOMAIN result.timeframe
  /\ result.intent.confidence = Tenths(3)
  /\ result.metrics.confidence = Tenths(2)
  /\ result.constraints.confidence = Tenths(2)
  /\ FLess(Tenths(2), result.overall_confidence)


\* the goal-refinement workflow has returned its result dictionary
RefinementReturned ==
  /\ workflow # None
  /\ workflow.name = "goal_refinement"
  /\ workflow.pc = "done"
  /\ workflow.result.success

\* C29: the goal-refinement workflow performs at most max_iterations
\* refine-then-analyze rounds and stops after the first round whose score
\* exceeds 80; the returned final_goal is the refined goal recorded in the
\* last entry of refinement_history (in particular the one that scored above
\* 80 when the loop stopped early), and iterations_completed is the number of
\* rounds performed.
C29_FinalGoalIsLastRefined ==
  RefinementReturned =>
    LET history == workflow.result.refinement_history
    IN /\ Len(history) <= workflow.max_iterations
       /\ \A k \in 1..(Len(history) - 1) : history[k].score <= 80
       /\ Len(history) < workflow.max_iterations => history[Len(history)].score > 80
       /\ workflow.result.iterations_completed = workflow.rounds
       /\ history # <<>> => workflow.result.final_goal = history[Len(history)].goal

\* the first round's goal scores 81 and the loop stops; the workflow returns
\* the copy of the goal it was given, not the goal that scored 81
C29_PassingGoalDiscarded ==
  /\ RefinementReturned
  /\ workflow.max_iterations = 3
  /\ Len(workflow.result.refinement_history) = 1
  /\ workflow.result.refinement_history[1].score = 81
  /\ workflow.result.refinement_history[1].goal = 2
  /\ workflow.result.final_goal = 1
  /\ workflow.result.iterations_completed = 1


\* the result has success true
Succeeded(run) == "success" \in DOMAIN run /\ run.success = TRUE

\* the sequential workflow has returned its result dictionary
SequentialReturned ==
  /\ workflow # None
  /\ workflow.name = "sequential"
  /\ workflow.pc = "done"
  /\ workflow.result.success

\* the input_data of the context, the empty dict when it has none
OriginalInput ==
  IF "input_data" \in DOMAIN workflow.context THEN workflow.context.input_data ELSE EmptyDict

\* C30: in the sequential workflow the agents run in list order, each agent
\* receives the result of the previous agent (the first the context's
\* input_data), and execution stops at the first agent whose result does not
\* have success true: no agent after that one is run, the results list has
\* exactly one entry per agent that ran, and final_result is the last
\* successful result (the original input if the first agent failed).
C30_StopsAtFirstFailure ==
  (workflow # None /\ workflow.name = "sequential") =>
    LET calls == workflow.calls
        results == workflow.results
        ran == Len(calls)
    IN /\ \A j \in 1..ran : calls[j].agent = j
       /\ ran >= 1 => calls[1].input_data = OriginalInput
       /\ \A j \in 2..ran : calls[j].input_data = results[j - 1].result
       /\ \A j \in 1..(ran - 1) : Succeeded(results[j].result)
       /\ SequentialReturned =>
            LET returned_results == workflow.result.results
                successes == {j \in 1..ran : Succeeded(returned_results[j].result)}
            IN /\ Len(returned_results) = ran
               /\ \A j \in 1..ran : returned_results[j].agent = j
               /\ ran < workflow.agents => ran >= 1 /\ ~Succeeded(returned_results[ran].result)
               /\ workflow.result.final_result
                    = IF successes = {} THEN OriginalInput
                      ELSE returned_results[Max(successes)].result

\* of four agents the first succeeds and the second fails: two agents ran,
\* and the final result is the first agent's
C30_SecondOfFourFails ==
  /\ SequentialReturned
  /\ workflow.agents = 4
  /\ Len(workflow.calls) = 2
  /\ Len(workflow.result.results) = 2
  /\ Succeeded(workflow.result.results[1].result)
  /\ ~Succeeded(workflow.result.results[2].result)
  /\ workflow.result.final_result = workflow.result.results[1].result
  /\ workflow.calls[2].input_data = workflow.result.results[1].result

=============================================================================
